---- MODULE Spec2Model ----
(***************************************************************************)
(* A model of the Escort router (ckknight/escort): route binding, the      *)
(* static/dynamic matcher with its two caches, the converters, the         *)
(* optional-segment expander and the server and client URL generators.     *)
(*                                                                         *)
(* Strings are sequences of one-character strings.  A parameter token of a *)
(* route string, `{name:converter(args)}`, is one element of the sequence: *)
(* the token's whole text, which TokenDefs resolves to the parameter name, *)
(* the converter name and the converter's arguments.                       *)
(***************************************************************************)
EXTENDS Integers, Sequences, FiniteSets, TLC

VARIABLES
    staticRoutes,         \* entries of the static map, in insertion order
    dynamicRoutes,        \* the prefix groups, each with its routes
    urlGenerators,        \* route name -> URL generator
    dynamicRouteCache,    \* path -> [descriptor, params, route]
    redirectCache,        \* path -> canonical path
    cacheExpirationTime,  \* time after which both caches are reset
    recordedAt,           \* history: path -> time its cache entry was recorded
    now,                  \* the wall clock
    binds,                \* number of bind calls made so far
    requests,             \* number of requests served so far
    generated,            \* the last call of a URL generator and what it returned
    notFoundHandler,      \* the not-found collaborator: what it does, "null" if none
    methodNotAllowedHandler, \* the method-not-allowed collaborator: what it does
    last                  \* what the last operation was and how it ended

vars == <<staticRoutes, dynamicRoutes, urlGenerators, dynamicRouteCache,
          redirectCache, cacheExpirationTime, recordedAt, now, binds, requests, generated,
          notFoundHandler, methodNotAllowedHandler, last>>

-----------------------------------------------------------------------------
(* Bounds of the model.                                                    *)

MaxBinds == 2
MaxRequests == 2
MaxTicks == 1
MaxDigits == 3
MaxExpands == 1
MaxRouteLen == 7

-----------------------------------------------------------------------------
(* Program constants.                                                      *)

CACHE_CLEAR_TIME == 60000

ACCEPTABLE_METHODS ==
    <<"get", "post", "put", "delete", "connect", "options", "trace", "copy",
      "lock", "mkcol", "move", "propfind", "proppatch", "unlock", "report",
      "mkactivity", "checkout", "merge">>

-----------------------------------------------------------------------------
(* Characters and strings.                                                 *)

Str(s) == [t |-> "str", s |-> s, n |-> 0]
Num(n) == [t |-> "num", s |-> <<>>, n |-> n]

DigitChars == <<"0", "1", "2", "3", "4", "5", "6", "7", "8", "9">>
Digits == {DigitChars[i] : i \in 1..10}

\* the value `undefined`, where a parameter value is expected
Undef == [t |-> "undef", s |-> <<>>, n |-> 0]

UpperChars == {"A", "B", "C", "D", "E", "F", "I", "N", "P", "T", "U"}

lowerChar(c) ==
    CASE c = "A" -> "a" [] c = "B" -> "b" [] c = "C" -> "c" [] c = "D" -> "d"
      [] c = "E" -> "e" [] c = "F" -> "f" [] c = "I" -> "i" [] c = "N" -> "n"
      [] c = "P" -> "p" [] c = "T" -> "t" [] c = "U" -> "u"
      [] OTHER -> c

upperChar(c) ==
    CASE c = "a" -> "A" [] c = "b" -> "B" [] c = "c" -> "C" [] c = "d" -> "D"
      [] c = "e" -> "E" [] c = "f" -> "F" [] c = "i" -> "I" [] c = "n" -> "N"
      [] c = "p" -> "P" [] c = "t" -> "T" [] c = "u" -> "U"
      [] OTHER -> c

toLowerCase(s) == [i \in 1..Len(s) |-> lowerChar(s[i])]

toUpperCase(s) == [i \in 1..Len(s) |-> upperChar(s[i])]

\* the first index of character c in s, 0 when there is none (indexOf + 1)
indexOf(s, c) ==
    IF \E i \in 1..Len(s) : s[i] = c
    THEN CHOOSE i \in 1..Len(s) : s[i] = c /\ \A j \in 1..(i - 1) : s[j] # c
    ELSE 0

hasDoubleSlash(s) == \E i \in 1..(Len(s) - 1) : s[i] = "/" /\ s[i + 1] = "/"

cmp(alpha, bravo) == IF alpha < bravo THEN -1 ELSE IF alpha > bravo THEN 1 ELSE 0

\* the code point order of the characters of the model ("/" < digits < upper < lower)
charCode(c) ==
    CASE c = "\n" -> 10 [] c = " " -> 32 [] c = "%" -> 37 [] c = "." -> 46
      [] c = "/" -> 47
      [] c = "0" -> 48 [] c = "1" -> 49 [] c = "2" -> 50 [] c = "3" -> 51
      [] c = "4" -> 52 [] c = "5" -> 53 [] c = "6" -> 54 [] c = "7" -> 55
      [] c = "8" -> 56 [] c = "9" -> 57
      [] c = "A" -> 65 [] c = "B" -> 66 [] c = "C" -> 67 [] c = "D" -> 68
      [] c = "E" -> 69 [] c = "F" -> 70 [] c = "I" -> 73 [] c = "N" -> 78
      [] c = "P" -> 80 [] c = "T" -> 84 [] c = "U" -> 85
      [] c = "a" -> 97 [] c = "b" -> 98 [] c = "c" -> 99 [] c = "d" -> 100
      [] c = "e" -> 101 [] c = "f" -> 102 [] c = "i" -> 105 [] c = "n" -> 110
      [] c = "p" -> 112 [] c = "t" -> 116 [] c = "u" -> 117
      [] OTHER -> 127

RECURSIVE cmpStr(_, _)
cmpStr(a, b) ==
    IF a = <<>> /\ b = <<>> THEN 0
    ELSE IF a = <<>> THEN -1
    ELSE IF b = <<>> THEN 1
    ELSE IF charCode(Head(a)) # charCode(Head(b))
         THEN cmp(charCode(Head(a)), charCode(Head(b)))
         ELSE cmpStr(Tail(a), Tail(b))

startsWith(text, value) ==
    IF Len(text) < Len(value) THEN FALSE
    ELSE SubSeq(text, 1, Len(value)) = value

RECURSIVE trimEndingSlashes(_)
trimEndingSlashes(path) ==
    IF Len(path) > 1 /\ path[Len(path)] = "/"
    THEN trimEndingSlashes(SubSeq(path, 1, Len(path) - 1))
    ELSE path

-----------------------------------------------------------------------------
(* Percent-encoding, as encodeURIComponent and decodeURIComponent do it on *)
(* the characters of the model.  A character stands for itself; the        *)
(* characters below 0x80 that the model names are those of charCode.       *)

ModelChars ==
    {"\n", " ", "%", ".", "/", "0", "1", "2", "3", "4", "5", "6", "7", "8", "9",
     "A", "B", "C", "D", "E", "F", "I", "N", "P", "T", "U",
     "a", "b", "c", "d", "e", "f", "i", "n", "p", "t", "u"}

\* encodeURIComponent leaves letters, digits and - _ . ! ~ * ' ( ) alone
Unreserved == ModelChars \ {"\n", " ", "%", "/"}

HexChars == <<"0", "1", "2", "3", "4", "5", "6", "7", "8", "9", "A", "B", "C", "D", "E", "F">>

isHex(c) == \E i \in 1..16 : HexChars[i] = upperChar(c)

hexVal(c) == (CHOOSE i \in 1..16 : HexChars[i] = upperChar(c)) - 1

charOfCode(n) ==
    IF \E c \in ModelChars : charCode(c) = n
    THEN CHOOSE c \in ModelChars : charCode(c) = n
    ELSE "#"

encodeChar(c) ==
    IF c \in Unreserved THEN <<c>>
    ELSE <<"%", HexChars[(charCode(c) \div 16) + 1], HexChars[(charCode(c) % 16) + 1]>>

RECURSIVE encodeURIComponent(_)
encodeURIComponent(s) ==
    IF s = <<>> THEN <<>> ELSE encodeChar(Head(s)) \o encodeURIComponent(Tail(s))

\* [ok |-> TRUE, s |-> decoded] or [ok |-> FALSE] for a URIError: a '%' that is
\* not followed by two hex digits, or a byte of 0x80 and above that starts no
\* complete UTF-8 sequence (every such byte, in the strings of the model)
RECURSIVE decodeURIComponent(_)
decodeURIComponent(s) ==
    IF s = <<>> THEN [ok |-> TRUE, s |-> <<>>]
    ELSE IF Head(s) # "%"
         THEN LET r == decodeURIComponent(Tail(s))
              IN  IF r.ok THEN [ok |-> TRUE, s |-> <<Head(s)>> \o r.s] ELSE r
    ELSE IF Len(s) < 3 \/ ~isHex(s[2]) \/ ~isHex(s[3]) THEN [ok |-> FALSE, s |-> <<>>]
    ELSE LET code == hexVal(s[2]) * 16 + hexVal(s[3])
             r == decodeURIComponent(SubSeq(s, 4, Len(s)))
         IN  IF code >= 128 THEN [ok |-> FALSE, s |-> <<>>]
             ELSE IF r.ok THEN [ok |-> TRUE, s |-> <<charOfCode(code)>> \o r.s] ELSE r

\* split s at every "/" (String.prototype.split("/"))
RECURSIVE splitSlash(_)
splitSlash(s) ==
    LET i == indexOf(s, "/")
    IN  IF i = 0 THEN <<s>>
        ELSE <<SubSeq(s, 1, i - 1)>> \o splitSlash(SubSeq(s, i + 1, Len(s)))

RECURSIVE joinSlash(_)
joinSlash(segs) ==
    IF Len(segs) = 1 THEN segs[1]
    ELSE segs[1] \o <<"/">> \o joinSlash(Tail(segs))

\* encodeUnicodePath: every "/"-separated component through encodeURIComponent
encodeUnicodePath(path) ==
    LET segs == splitSlash(path)
    IN  joinSlash([i \in 1..Len(segs) |-> encodeURIComponent(segs[i])])

isASCII(value) == \A i \in 1..Len(value) : charCode(value[i]) < 128

-----------------------------------------------------------------------------
(* The converters.  The arguments of a converter are one record; an option *)
(* that was not given is 0, FALSE or <<>> (the values the code's `||` and   *)
(* `=== undefined` tests turn into its defaults).                           *)

NoArgs ==
    [minLength |-> 0, maxLength |-> 0, allowUpperCase |-> FALSE, allowNonASCII |-> FALSE,
     hasMin |-> FALSE, min |-> 0, hasMax |-> FALSE, max |-> 0, fixedDigits |-> 0,
     values |-> <<>>]

\* the text of a converter's regex, as a record: two records are equal exactly
\* when the texts are
SegRegex(min, max) == [cls |-> "seg", min |-> min, max |-> max, alts |-> <<>>]
PathRegex == [cls |-> "path", min |-> 0, max |-> 0, alts |-> <<>>]
DigitsRegex == [cls |-> "digits", min |-> 0, max |-> 0, alts |-> <<>>]
AltRegex(alts) == [cls |-> "alt", min |-> 0, max |-> 0, alts |-> alts]

StringConverter(args) ==
    LET minLength == IF args.minLength = 0 THEN 1 ELSE args.minLength
        maxLength == args.maxLength
    IN  [type |-> "string",
         \* "[^/]+" when minLength is 1 and there is no maxLength, else "[^/]{min,max}",
         \* "[^/]{min,}" or "[^/]{min}"
         regex |-> IF minLength = 1 /\ maxLength = 0 THEN SegRegex(1, 0)
                   ELSE SegRegex(minLength, maxLength),
         weight |-> 100, args |-> args]

PathConverter(args) == [type |-> "path", regex |-> PathRegex, weight |-> 50, args |-> args]

IntegerConverter(args) == [type |-> "int", regex |-> DigitsRegex, weight |-> 150, args |-> args]

AnyConverter(args) == [type |-> "any", regex |-> AltRegex(args.values), weight |-> 200, args |-> args]

\* escort.converters[converterName] applied to the token's arguments
makeConverter(type, args) ==
    CASE type = "string" -> StringConverter(args)
      [] type = "path" -> PathConverter(args)
      [] type = "int" -> IntegerConverter(args)
      [] type = "any" -> AnyConverter(args)

Ok(v) == [st |-> "ok", v |-> v, expected |-> <<>>]
ValidationError == [st |-> "validation", v |-> Str(<<>>), expected |-> <<>>]
CasingError(expected) == [st |-> "casing", v |-> Str(<<>>), expected |-> expected]
OtherError == [st |-> "error", v |-> Str(<<>>), expected |-> <<>>]

\* StringConverter.prototype.fromUrl and PathConverter.prototype.fromUrl
stringFromUrl(conv, value) ==
    LET d == decodeURIComponent(value)
    IN  IF ~d.ok THEN OtherError
        ELSE IF ~conv.args.allowNonASCII /\ ~isASCII(d.s) THEN ValidationError
        ELSE IF ~conv.args.allowUpperCase /\ d.s # toLowerCase(d.s)
             THEN CasingError(toLowerCase(d.s))
        ELSE Ok(Str(d.s))

\* parseInt(value, 10) of a string of digits
RECURSIVE parseInt(_)
parseInt(s) ==
    IF s = <<>> THEN 0
    ELSE parseInt(SubSeq(s, 1, Len(s) - 1)) * 10
         + (CHOOSE i \in 0..9 : DigitChars[i + 1] = s[Len(s)])

isDigits(s) == s # <<>> /\ \A i \in 1..Len(s) : s[i] \in Digits

\* fromUrl with the bounds compared exclusively: result <= min, result >= max
intFromUrlExclusive(conv, value) ==
    IF conv.args.fixedDigits # 0 /\ Len(value) # conv.args.fixedDigits THEN ValidationError
    ELSE IF ~isDigits(value) THEN ValidationError
    ELSE LET result == parseInt(value)
         IN  IF conv.args.hasMin /\ result <= conv.args.min THEN ValidationError
             ELSE IF conv.args.hasMax /\ result >= conv.args.max THEN ValidationError
             ELSE Ok(Num(result))

\* IntegerConverter.prototype.fromUrl
intFromUrl(conv, value) ==
    IF conv.args.fixedDigits # 0 /\ Len(value) # conv.args.fixedDigits THEN ValidationError
    ELSE IF ~isDigits(value) THEN ValidationError
    ELSE LET result == parseInt(value)
         IN  IF conv.args.hasMin /\ result < conv.args.min THEN ValidationError
             ELSE IF conv.args.hasMax /\ result > conv.args.max THEN ValidationError
             ELSE Ok(Num(result))

\* this._values[key]: the last argument whose lower-cased text is key
anyLookup(values, key) ==
    IF \E i \in 1..Len(values) : toLowerCase(values[i]) = key
    THEN LET i == CHOOSE j \in 1..Len(values) :
                      /\ toLowerCase(values[j]) = key
                      /\ \A k \in (j + 1)..Len(values) : toLowerCase(values[k]) # key
         IN  [found |-> TRUE, s |-> values[i]]
    ELSE [found |-> FALSE, s |-> <<>>]

\* the value `undefined`, where a string is expected
UndefinedString == <<"#undefined">>

\* AnyConverter.prototype.fromUrl; a value that is no key gives CasingError(undefined),
\* and undefined.toLowerCase() is a TypeError
anyFromUrl(conv, value) ==
    IF value = UndefinedString THEN OtherError
    ELSE LET r == anyLookup(conv.args.values, toLowerCase(value))
         IN  IF ~r.found THEN CasingError(UndefinedString)
             ELSE IF r.s # value THEN CasingError(r.s)
             ELSE Ok(Str(r.s))

fromUrl(conv, value) ==
    CASE conv.type \in {"string", "path"} -> stringFromUrl(conv, value)
      [] conv.type = "int" -> intFromUrl(conv, value)
      [] conv.type = "any" -> anyFromUrl(conv, value)

\* String(value) of a decoded value
RECURSIVE numToString(_)
numToString(n) ==
    IF n < 10 THEN <<DigitChars[n + 1]>>
    ELSE numToString(n \div 10) \o <<DigitChars[(n % 10) + 1]>>

toStr(value) ==
    IF value.t = "num" THEN numToString(value.n)
    ELSE IF value.t = "undef" THEN <<"u", "n", "d", "e", "f", "i", "n", "e", "d">>
    ELSE value.s

\* zeroPad with the loop running one turn short: numMissing > 1
zeroPadShort(value, length) ==
    LET numMissing == length - Len(value) - 1
    IN  [i \in 1..(IF numMissing > 0 THEN numMissing ELSE 0) |-> "0"] \o value

zeroPad(value, length) ==
    LET numMissing == length - Len(value)
    IN  [i \in 1..(IF numMissing > 0 THEN numMissing ELSE 0) |-> "0"] \o value

\* Math.floor(value) || 0: a number is itself, a string of digits its value,
\* anything else NaN and so 0
floorOrZero(value) ==
    IF value.t = "num" THEN value.n
    ELSE IF value.t = "str" /\ isDigits(value.s) THEN parseInt(value.s) ELSE 0

\* BaseConverter.prototype.toUrl (string and any), PathConverter.prototype.toUrl,
\* IntegerConverter.prototype.toUrl
toUrl(conv, value) ==
    CASE conv.type \in {"string", "any"} -> encodeURIComponent(toStr(value))
      [] conv.type = "path" -> encodeUnicodePath(toStr(value))
      [] conv.type = "int" ->
            LET part == numToString(floorOrZero(value))
            IN  IF conv.args.fixedDigits # 0 THEN zeroPad(part, conv.args.fixedDigits)
                ELSE part

\* converter.serialize()
serialize(conv) ==
    [type |-> conv.type,
     fixedDigits |-> IF conv.type = "int" THEN conv.args.fixedDigits ELSE 0]

\* escort-client.js: defaultConverters[param.type](param)
clientToUrl(param, value) ==
    CASE param.type \in {"string", "any"} -> encodeURIComponent(toStr(value))
      [] param.type = "path" -> encodeUnicodePath(toStr(value))
      [] param.type = "int" ->
            LET result == numToString(floorOrZero(value))
            IN  IF param.fixedDigits # 0
                THEN LET numMissing == param.fixedDigits - Len(result)
                     IN  [i \in 1..(IF numMissing > 0 THEN numMissing ELSE 0) |-> "0"]
                         \o result
                ELSE result

-----------------------------------------------------------------------------
(* The matcher of a dynamic route: new RegExp(pattern, "i") with           *)
(* pattern = "^(prefix)" + "(regex_k)(literal_k)"... + "$".  exec is a      *)
(* backtracking search: each converter group tries its candidates in the   *)
(* order of its regex (greedy: longest first; an alternation: in the order *)
(* of its alternatives) and keeps the first for which the rest matches.    *)

\* text occurs in url at position pos, letter case ignored
literalAt(url, pos, text) ==
    /\ pos + Len(text) - 1 <= Len(url)
    /\ toLowerCase(SubSeq(url, pos, pos + Len(text) - 1)) = toLowerCase(text)

\* the number of leading characters of s, from pos on, that are in (or not in) a set
RECURSIVE runLength(_, _, _, _)
runLength(url, pos, chars, inside) ==
    IF pos > Len(url) \/ ((url[pos] \in chars) # inside) THEN 0
    ELSE 1 + runLength(url, pos + 1, chars, inside)

downTo(hi, lo) == [i \in 1..(IF hi >= lo THEN hi - lo + 1 ELSE 0) |-> hi + 1 - i]

\* s matches [^/]+(?:/[^/]+)* as a whole
isPathText(s) ==
    /\ s # <<>>
    /\ s[1] # "/"
    /\ s[Len(s)] # "/"
    /\ ~hasDoubleSlash(s)

RECURSIVE selectSeq(_, _, _)
selectSeq(lens, url, pos) ==
    IF lens = <<>> THEN <<>>
    ELSE (IF isPathText(SubSeq(url, pos, pos + Head(lens) - 1)) THEN <<Head(lens)>> ELSE <<>>)
         \o selectSeq(Tail(lens), url, pos)

RECURSIVE altCandidates(_, _, _)
altCandidates(alts, url, pos) ==
    IF alts = <<>> THEN <<>>
    ELSE (IF literalAt(url, pos, Head(alts)) THEN <<Len(Head(alts))>> ELSE <<>>)
         \o altCandidates(Tail(alts), url, pos)

\* the lengths a converter's group can take at pos, in the order exec tries them
candidates(regex, url, pos) ==
    CASE regex.cls = "seg" ->
            LET run == runLength(url, pos, {"/"}, FALSE)
                hi == IF regex.max # 0 /\ regex.max < run THEN regex.max ELSE run
            IN  downTo(hi, regex.min)
      [] regex.cls = "digits" -> downTo(runLength(url, pos, Digits, TRUE), 1)
      [] regex.cls = "path" -> selectSeq(downTo(Len(url) - pos + 1, 1), url, pos)
      [] regex.cls = "alt" -> altCandidates(regex.alts, url, pos)

NoMatch == [ok |-> FALSE, caps |-> <<>>]

RECURSIVE matchParts(_, _, _, _)
RECURSIVE tryCandidates(_, _, _, _, _)
matchParts(url, pos, parts, k) ==
    IF k > Len(parts)
    THEN IF pos = Len(url) + 1 THEN [ok |-> TRUE, caps |-> <<>>] ELSE NoMatch
    ELSE tryCandidates(url, pos, parts, k, candidates(parts[k].regex, url, pos))

tryCandidates(url, pos, parts, k, cands) ==
    IF cands = <<>> THEN NoMatch
    ELSE LET n == Head(cands)
             rest == IF literalAt(url, pos + n, parts[k].literal)
                     THEN matchParts(url, pos + n + Len(parts[k].literal), parts, k + 1)
                     ELSE NoMatch
         IN  IF rest.ok
             THEN [ok |-> TRUE, caps |-> <<SubSeq(url, pos, pos + n - 1)>> \o rest.caps]
             ELSE tryCandidates(url, pos, parts, k, Tail(cands))

\* route.regex.exec(url): caps[k] is match[k * 2] of the code, the text of parameter k
regexExec(pattern, url) ==
    IF literalAt(url, 1, pattern.prefix)
    THEN matchParts(url, Len(pattern.prefix) + 1, pattern.parts, 1)
    ELSE NoMatch

-----------------------------------------------------------------------------
(* The optional-segment expander.                                          *)

RECURSIVE pow2(_)
pow2(n) == IF n <= 0 THEN 1 ELSE 2 * pow2(n - 1)

\* array[i] += c for the last array.length / 2^depth elements; with a negative
\* depth the loop starts below index 0 and so reaches every element
addCharToArray(array, c, depth) ==
    LET start == IF depth < 0 THEN 0 ELSE Len(array) - (Len(array) \div pow2(depth))
    IN  [i \in 1..Len(array) |-> IF i > start THEN Append(array[i], c) ELSE array[i]]

\* the elements of array, each kept where it occurs first
RECURSIVE distinct(_)
distinct(array) ==
    IF array = <<>> THEN <<>>
    ELSE LET front == distinct(SubSeq(array, 1, Len(array) - 1))
             item == array[Len(array)]
         IN  IF \E i \in 1..Len(front) : front[i] = item THEN front ELSE Append(front, item)

\* the loop over the characters of one route: st is [res, depth, inLiteral, err]
RECURSIVE expandChars(_, _, _)
expandChars(route, i, st) ==
    IF i > Len(route) \/ st.err THEN st
    ELSE LET c == route[i]
         IN  expandChars(route, i + 1,
                IF st.inLiteral = 0
                THEN IF c = "["
                     THEN [st EXCEPT !.depth = @ + 1, !.res = @ \o @]
                     ELSE IF c = "]"
                     THEN [st EXCEPT !.depth = @ - 1]
                     ELSE IF c = "}"
                     THEN [st EXCEPT !.err = TRUE]
                     ELSE [st EXCEPT !.inLiteral = IF c = "{" THEN 1 ELSE 0,
                                     !.res = addCharToArray(@, c, st.depth)]
                ELSE [st EXCEPT !.inLiteral = IF c = "{" THEN @ + 1
                                              ELSE IF c = "}" THEN @ - 1 ELSE @,
                                !.res = addCharToArray(@, c, st.depth)])

\* the strings one route expands to, or the error "Found unexpected }"
expandRoute(route) ==
    IF \A i \in 1..Len(route) : route[i] # "["
    THEN [err |-> FALSE, res |-> <<route>>]
    ELSE LET st == expandChars(route, 1,
                       [res |-> << <<>> >>, depth |-> 0, inLiteral |-> 0, err |-> FALSE])
         IN  [err |-> st.err, res |-> st.res]

RECURSIVE expandAll(_)
expandAll(routes) ==
    IF routes = <<>> THEN [err |-> FALSE, res |-> <<>>]
    ELSE LET h == expandRoute(Head(routes))
             t == expandAll(Tail(routes))
         IN  [err |-> h.err \/ t.err, res |-> h.res \o t.res]

\* parseOptionalRoutes(routes), routes being an array of route strings
parseOptionalRoutes(routes) ==
    LET r == expandAll(routes)
    IN  IF r.err THEN [err |-> TRUE, res |-> <<>>]
        ELSE [err |-> FALSE, res |-> distinct(r.res)]

-----------------------------------------------------------------------------
(* Route strings.  The parameter tokens the model binds, with what         *)
(* ROUTE_REGEX and calculateConverterArgs make of their text: the          *)
(* parameter name, the converter name ("default" when the token names      *)
(* none) and the converter's arguments.                                    *)

IntFixedToken(d) == "{n:int({fixedDigits:" \o DigitChars[d + 1] \o "})}"

TokenDefs ==
    {[text |-> "{x}", name |-> "x", type |-> "default", args |-> NoArgs],
     [text |-> "{y}", name |-> "y", type |-> "default", args |-> NoArgs],
     [text |-> "{x:string({allowUpperCase:true})}", name |-> "x", type |-> "string",
      args |-> [NoArgs EXCEPT !.allowUpperCase = TRUE]],
     [text |-> "{n:int}", name |-> "n", type |-> "int", args |-> NoArgs],
     [text |-> "{n:int({min:1,max:99})}", name |-> "n", type |-> "int",
      args |-> [NoArgs EXCEPT !.hasMin = TRUE, !.min = 1, !.hasMax = TRUE, !.max = 99]],
     [text |-> "{n:int({min:0,max:9})}", name |-> "n", type |-> "int",
      args |-> [NoArgs EXCEPT !.hasMin = TRUE, !.min = 0, !.hasMax = TRUE, !.max = 9]],
     [text |-> "{n:int({min:10})}", name |-> "n", type |-> "int",
      args |-> [NoArgs EXCEPT !.hasMin = TRUE, !.min = 10]],
     [text |-> "{n:int({max:100})}", name |-> "n", type |-> "int",
      args |-> [NoArgs EXCEPT !.hasMax = TRUE, !.max = 100]],
     [text |-> "{n:int({min:5,max:5})}", name |-> "n", type |-> "int",
      args |-> [NoArgs EXCEPT !.hasMin = TRUE, !.min = 5, !.hasMax = TRUE, !.max = 5]],
     [text |-> "{k:any('Ab','c')}", name |-> "k", type |-> "any",
      args |-> [NoArgs EXCEPT !.values = << <<"A", "b">>, <<"c">> >>]],
     [text |-> "{p:path}", name |-> "p", type |-> "path", args |-> NoArgs],
     [text |-> "{z:zip}", name |-> "z", type |-> "zip", args |-> NoArgs]}
    \cup {[text |-> IntFixedToken(d), name |-> "n", type |-> "int",
           args |-> [NoArgs EXCEPT !.fixedDigits = d]] : d \in 1..MaxDigits}

TokenTexts == {t.text : t \in TokenDefs}

isToken(c) == c \in TokenTexts

tokenOf(c) == CHOOSE t \in TokenDefs : t.text = c

\* escort.converters: "default" is the string converter
KnownConverters == {"default", "string", "path", "int", "any"}

converterType(name) == IF name = "default" THEN "string" ELSE name

\* route.split(ROUTE_REGEX): the literals around the tokens, and the tokens
RECURSIVE splitRoute(_)
splitRoute(route) ==
    IF \A i \in 1..Len(route) : ~isToken(route[i])
    THEN [literals |-> <<route>>, tokens |-> <<>>]
    ELSE LET i == CHOOSE j \in 1..Len(route) :
                      isToken(route[j]) /\ \A k \in 1..(j - 1) : ~isToken(route[k])
             rest == splitRoute(SubSeq(route, i + 1, Len(route)))
         IN  [literals |-> <<SubSeq(route, 1, i - 1)>> \o rest.literals,
              tokens |-> <<route[i]>> \o rest.tokens]

\* validatePath without its test for "//"
validatePathNoSlashes(path) ==
    IF path = <<>> \/ path[1] # "/" THEN "start"
    ELSE IF indexOf(path, "?") # 0 THEN "question"
    ELSE ""

\* validatePath(path): "" when the path is accepted, else what it throws about
validatePath(path) ==
    IF path = <<>> \/ path[1] # "/" THEN "start"
    ELSE IF hasDoubleSlash(path) THEN "slashes"
    ELSE IF indexOf(path, "?") # 0 THEN "question"
    ELSE ""

-----------------------------------------------------------------------------
(* Descriptors.                                                            *)

\* the keys of a descriptor, each split at ",": the methods in order
RECURSIVE flatten(_)
flatten(keys) == IF keys = <<>> THEN <<>> ELSE Head(keys) \o flatten(Tail(keys))

AcceptableMethodSet == {ACCEPTABLE_METHODS[i] : i \in 1..Len(ACCEPTABLE_METHODS)}

RECURSIVE selectMethods(_, _)
selectMethods(list, set) ==
    IF list = <<>> THEN <<>>
    ELSE (IF Head(list) \in set THEN <<Head(list)>> ELSE <<>>) \o selectMethods(Tail(list), set)

\* createOptionsHandler applied after the options handler was added
createOptionsHandlerWithOptions(methods) ==
    selectMethods(ACCEPTABLE_METHODS, methods \cup {"options"})

\* createOptionsHandler(descriptor): the methods its response lists
createOptionsHandler(methods) == selectMethods(ACCEPTABLE_METHODS, methods)

\* sanitizeDescriptor(descriptor): id names the bind call whose handlers these are;
\* allow is the list of the synthesized options handler (synthesized tells it from
\* the caller's own, whose allow is <<>>)
sanitizeDescriptor(keys, id) ==
    LET ms == flatten(keys)
        result == {ms[i] : i \in 1..Len(ms)}
    IN  IF \E i \in 1..Len(ms) : ms[i] \notin AcceptableMethodSet
        THEN [err |-> "unknown method",
              d |-> [id |-> id, methods |-> {}, allow |-> <<>>, synthesized |-> FALSE]]
        ELSE IF \E i, j \in 1..Len(ms) : i < j /\ ms[i] = ms[j]
        THEN [err |-> "duplicate method",
              d |-> [id |-> id, methods |-> {}, allow |-> <<>>, synthesized |-> FALSE]]
        ELSE [err |-> "",
              d |-> [id |-> id,
                     methods |-> result \cup {"options"},
                     allow |-> IF "options" \in result THEN <<>>
                               ELSE createOptionsHandler(result),
                     synthesized |-> "options" \notin result]]

-----------------------------------------------------------------------------
(* bind.                                                                   *)

NoStaticGenerator == [has |-> FALSE, route |-> <<>>]
NoDynamicGenerator ==
    [has |-> FALSE, literals |-> <<>>, argumentNames |-> <<>>, converters |-> <<>>]

\* Array.prototype.sort(comparefn) on the short arrays of a route table is an
\* insertion sort: each element moves left past the elements that compare greater

\* dynamicRoutes.sort comparing the prefixes alone
cmpGroupsByPrefix(a, b) ==
    cmpStr(a.prefix, b.prefix)

\* the comparefn of dynamicRoutes.sort: longer prefix first, then prefix order
cmpGroups(a, b) ==
    IF cmp(Len(b.prefix), Len(a.prefix)) # 0 THEN cmp(Len(b.prefix), Len(a.prefix))
    ELSE cmpStr(a.prefix, b.prefix)

\* routes.sort with the operands of cmp exchanged: the smaller weight first
cmpRoutesAscending(a, b) ==
    LET len == IF Len(a.weights) < Len(b.weights) THEN Len(a.weights) ELSE Len(b.weights)
        differ == {i \in 1..len : a.weights[i] # b.weights[i]}
    IN  IF differ # {}
        THEN LET i == CHOOSE j \in differ : \A k \in differ : j <= k
             IN  cmp(a.weights[i], b.weights[i])
        ELSE cmp(Len(a.weights), Len(b.weights))

\* the comparefn of routes.sort: weights position by position, greater first, then
\* the longer vector first
cmpRoutes(a, b) ==
    LET len == IF Len(a.weights) < Len(b.weights) THEN Len(a.weights) ELSE Len(b.weights)
        differ == {i \in 1..len : a.weights[i] # b.weights[i]}
    IN  IF differ # {}
        THEN LET i == CHOOSE j \in differ : \A k \in differ : j <= k
             IN  cmp(b.weights[i], a.weights[i])
        ELSE cmp(Len(b.weights), Len(a.weights))

comparefn(kind, a, b) == IF kind = "groups" THEN cmpGroups(a, b) ELSE cmpRoutes(a, b)

insertSorted(sorted, element, kind) ==
    LET keep == {j \in 1..Len(sorted) : comparefn(kind, sorted[j], element) <= 0}
        at == IF keep = {} THEN 0 ELSE CHOOSE j \in keep : \A k \in keep : k <= j
    IN  SubSeq(sorted, 1, at) \o <<element>> \o SubSeq(sorted, at + 1, Len(sorted))

RECURSIVE sort(_, _)
sort(array, kind) ==
    IF array = <<>> THEN <<>>
    ELSE insertSorted(sort(SubSeq(array, 1, Len(array) - 1), kind), array[Len(array)], kind)

\* the index of the group with this prefix, 0 when there is none
groupIndex(groups, prefix) ==
    IF \E i \in 1..Len(groups) : groups[i].prefix = prefix
    THEN CHOOSE i \in 1..Len(groups) : groups[i].prefix = prefix
    ELSE 0

staticIndex(entries, key) ==
    IF \E i \in 1..Len(entries) : entries[i].key = key
    THEN CHOOSE i \in 1..Len(entries) : entries[i].key = key
    ELSE 0

\* the static branch with the table keyed by the route as written
bindStaticCaseSensitive(acc, route0, routeName, descriptor) ==
    LET route == encodeUnicodePath(route0)
        lowerRoute == trimEndingSlashes(route)
    IN  IF staticIndex(acc.staticRoutes, lowerRoute) # 0
        THEN [acc EXCEPT !.err = "Already defined route at"]
        ELSE [acc EXCEPT
                !.staticRoutes = Append(@, [key |-> lowerRoute, name |-> routeName,
                                            route |-> route, descriptor |-> descriptor]),
                !.staticGenerator = IF @.has THEN @ ELSE [has |-> TRUE, route |-> route]]

\* the static branch of bind's loop body
bindStatic(acc, route0, routeName, descriptor) ==
    LET route == encodeUnicodePath(route0)
        lowerRoute == trimEndingSlashes(toLowerCase(route))
    IN  IF staticIndex(acc.staticRoutes, lowerRoute) # 0
        THEN [acc EXCEPT !.err = "Already defined route at"]
        ELSE [acc EXCEPT
                !.staticRoutes = Append(@, [key |-> lowerRoute, name |-> routeName,
                                            route |-> route, descriptor |-> descriptor]),
                !.staticGenerator = IF @.has THEN @ ELSE [has |-> TRUE, route |-> route]]

\* the dynamic branch of bind's loop body
bindDynamic(acc, parts, routeName, descriptor) ==
    LET n == Len(parts.tokens)
        prefix == toLowerCase(encodeUnicodePath(parts.literals[1]))
        found == groupIndex(acc.dynamicRoutes, prefix)
        groups == IF found # 0 THEN acc.dynamicRoutes
                  ELSE sort(Append(acc.dynamicRoutes, [prefix |-> prefix, routes |-> <<>>]),
                            "groups")
        g == groupIndex(groups, prefix)
        lastPart0 == parts.literals[n + 1]
        hasEndingSlash == lastPart0 # <<>> /\ lastPart0[Len(lastPart0)] = "/"
        lastPart == IF hasEndingSlash THEN SubSeq(lastPart0, 1, Len(lastPart0) - 1)
                    ELSE lastPart0
        rawLiteral(i) == IF i = n + 1 THEN lastPart ELSE parts.literals[i]
        tokens == [i \in 1..n |-> tokenOf(parts.tokens[i])]
        unknown == \E i \in 1..n : tokens[i].type \notin KnownConverters
        argumentNames == [i \in 1..n |-> tokens[i].name]
        converters == [i \in 1..n |->
                          makeConverter(converterType(tokens[i].type), tokens[i].args)]
        allLiterals == [i \in 1..(n + 1) |-> encodeUnicodePath(rawLiteral(i))]
        pattern == [prefix |-> prefix,
                    parts |-> [i \in 1..n |-> [regex |-> converters[i].regex,
                                               literal |-> allLiterals[i + 1]]]]
        weights == [i \in 1..(2 * n + 1) |->
                       IF i = 1 THEN Len(parts.literals[1])
                       ELSE IF i % 2 = 0 THEN converters[i \div 2].weight
                       ELSE Len(allLiterals[(i + 1) \div 2])]
        literals == IF allLiterals[n + 1] = <<>> THEN SubSeq(allLiterals, 1, n)
                    ELSE allLiterals
        routes == groups[g].routes
        route == [name |-> routeName, pattern |-> pattern, literals |-> literals,
                  argumentNames |-> argumentNames, converters |-> converters,
                  descriptor |-> descriptor, weights |-> weights,
                  hasEndingSlash |-> hasEndingSlash]
    IN  IF unknown
        THEN [acc EXCEPT !.dynamicRoutes = groups, !.err = "Unknown converter"]
        ELSE IF \E i \in 1..Len(routes) : routes[i].pattern = pattern
        THEN [acc EXCEPT !.dynamicRoutes = groups, !.err = "Already defined route matching"]
        ELSE [acc EXCEPT
                !.dynamicRoutes = [groups EXCEPT ![g].routes = sort(Append(@, route), "routes")],
                !.dynamicGenerator =
                    IF @.has THEN @
                    ELSE [has |-> TRUE, literals |-> literals,
                          argumentNames |-> argumentNames, converters |-> converters]]

\* route.forEach(...) of bind: the alternatives in order, until one throws
RECURSIVE bindLoop(_, _, _, _, _)
bindLoop(acc, alternatives, routePrefix, routeName, descriptor) ==
    IF alternatives = <<>> \/ acc.err # "" THEN acc
    ELSE LET route == routePrefix \o Head(alternatives)
             invalid == validatePath(route)
             parts == splitRoute(route)
             next == IF invalid # "" THEN [acc EXCEPT !.err = invalid]
                     ELSE IF Len(parts.literals) = 1
                     THEN bindStatic(acc, route, routeName, descriptor)
                     ELSE bindDynamic(acc, parts, routeName, descriptor)
         IN  bindLoop(next, Tail(alternatives), routePrefix, routeName, descriptor)

RECURSIVE concatChars(_)
concatChars(s) == IF s = <<>> THEN "" ELSE Head(s) \o concatChars(Tail(s))

RECURSIVE stripLeadingSlashes(_)
stripLeadingSlashes(s) ==
    IF s # <<>> /\ Head(s) = "/" THEN stripLeadingSlashes(Tail(s)) ELSE s

\* [a-zA-Z0-9\-_\/]: what GUESS_ROUTE_NAME_UNEXPECTED_CHARACTER_REGEX leaves
NameChars == (Unreserved \ {"."}) \cup {"/", "-", "_"}

\* PUNCTUATION_LETTER_REGEX: a '-', '_' or '/' and the character after it become
\* that character in upper case ('.' matches no line break)
RECURSIVE camelCase(_)
camelCase(s) ==
    IF s = <<>> THEN <<>>
    ELSE IF Head(s) \in {"-", "_", "/"} /\ Len(s) >= 2 /\ s[2] # "\n"
         THEN <<upperChar(s[2])>> \o camelCase(SubSeq(s, 3, Len(s)))
         ELSE <<Head(s)>> \o camelCase(Tail(s))

\* guessRouteName(route): [err, name]
guessRouteName(route) ==
    IF route = <<"/">> THEN [err |-> FALSE, name |-> "root"]
    ELSE IF \E i \in 1..Len(route) : route[i] = "{" \/ isToken(route[i])
    THEN [err |-> TRUE, name |-> ""]
    ELSE LET result == camelCase(SelectSeq(stripLeadingSlashes(route),
                                           LAMBDA c : c \in NameChars))
         IN  [err |-> result = <<>>, name |-> concatChars(result)]

\* bind(routeName, route, descriptor, routePrefix) on the tables t =
\* [staticRoutes, dynamicRoutes, urlGenerators].  call.name = "" is the call without
\* a route name; call.prefix # <<>> is a bind made inside submount(call.prefix, ...).
\* The result holds the tables as the call leaves them and err, what it threw ("" if
\* it returned).
bind(t, call) ==
    LET parsed == parseOptionalRoutes(call.routes)
        guessed == IF call.prefix = <<>> THEN guessRouteName(parsed.res[1])
                   ELSE guessRouteName(call.prefix \o call.routes[1])
        routeName == IF call.name = "" THEN guessed.name ELSE call.name
        sane == sanitizeDescriptor(call.descriptor, call.id)
        start == [staticRoutes |-> t.staticRoutes, dynamicRoutes |-> t.dynamicRoutes,
                  staticGenerator |-> NoStaticGenerator,
                  dynamicGenerator |-> NoDynamicGenerator, err |-> ""]
        done == bindLoop(start, parsed.res, call.prefix, routeName, sane.d)
        failed(err) == [staticRoutes |-> t.staticRoutes, dynamicRoutes |-> t.dynamicRoutes,
                        urlGenerators |-> t.urlGenerators, err |-> err, name |-> routeName]
    IN  IF call.prefix # <<>> /\ validatePath(call.prefix) # ""
        THEN [failed(validatePath(call.prefix)) EXCEPT !.name = ""]
        ELSE IF call.prefix # <<>> /\ call.name = "" /\ guessed.err
        THEN [failed("Unable to guess route name") EXCEPT !.name = ""]
        ELSE IF parsed.err THEN [failed("Found unexpected }") EXCEPT !.name = ""]
        ELSE IF call.name = "" /\ guessed.err
        THEN [failed("Unable to guess route name") EXCEPT !.name = ""]
        ELSE IF sane.err # "" THEN failed(sane.err)
        ELSE IF routeName \in DOMAIN t.urlGenerators THEN failed("Already defined route named")
        ELSE [staticRoutes |-> done.staticRoutes,
              dynamicRoutes |-> done.dynamicRoutes,
              urlGenerators |->
                  IF done.err # "" THEN t.urlGenerators
                  ELSE (routeName :> [static |-> done.staticGenerator,
                                      dynamic |-> done.dynamicGenerator])
                       @@ t.urlGenerators,
              err |-> done.err, name |-> routeName]

-----------------------------------------------------------------------------
(* URL generation.                                                         *)

\* the function generateUrlFunction(literals, argumentNames, converters) builds,
\* called with the parameter values in declared order; a name that occurs twice
\* takes the value of its last occurrence, a missing argument is undefined
generate(g, args) ==
    LET n == Len(g.argumentNames)
        argument(j) == IF j <= Len(args) THEN args[j] ELSE Undef
        valueOf(i) == argument(CHOOSE j \in 1..n :
                               /\ g.argumentNames[j] = g.argumentNames[i]
                               /\ \A k \in (j + 1)..n : g.argumentNames[k] # g.argumentNames[i])
        RECURSIVE build(_)
        build(i) ==
            IF i > n THEN <<>>
            ELSE toUrl(g.converters[i], valueOf(i))
                 \o (IF i + 1 <= Len(g.literals) THEN g.literals[i + 1] ELSE <<>>)
                 \o build(i + 1)
    IN  g.literals[1] \o build(1)

\* urlGenerators[name] called with args (one value per parameter, or none)
url(generator, args) ==
    IF generator.static.has /\ generator.dynamic.has
    THEN IF Len(args) = 0 THEN generator.static.route
         ELSE generate(generator.dynamic, args)
    ELSE IF generator.static.has THEN generator.static.route
    ELSE generate(generator.dynamic, args)

-----------------------------------------------------------------------------
(* The router.                                                             *)

lowerMethod(method) ==
    CASE method = "GET" -> "get" [] method = "POST" -> "post"
      [] method = "PUT" -> "put" [] method = "OPTIONS" -> "options"
      [] OTHER -> method

EmptyParams == <<>>

NoDescriptor == [id |-> 0, methods |-> {}, allow |-> <<>>, synthesized |-> FALSE]

\* what a request ends in: kind is "handler" (the handler of descriptor for method is
\* called with params), "redirect" (301 with location), "methodNotAllowed",
\* "notFound" or "error" (next(err)); src is the branch that decided it
Outcome(kind, src, name, descriptor, params, location) ==
    [kind |-> kind, src |-> src, name |-> name, descriptor |-> descriptor,
     params |-> params, location |-> location]

NotFound == Outcome("notFound", "none", "", NoDescriptor, EmptyParams, <<>>)

\* properUrl += unconvertedValue; properUrl += literals[k + 1] || "";
\* params[argumentNames[k]] = convertedValue
addParam(route, k, acc, unconvertedValue, convertedValue) ==
    [st |-> "ok",
     properUrl |-> acc.properUrl \o unconvertedValue
                   \o (IF k + 1 <= Len(route.literals) THEN route.literals[k + 1] ELSE <<>>),
     params |-> (route.argumentNames[k] :> convertedValue) @@ acc.params]

\* the CasingError branch of the catch: the converter is called again, outside any
\* try, on the expected casing; whatever it throws leaves the router's loop
recased(route, k, acc, expectedCasing, second) ==
    IF second.st = "ok" THEN addParam(route, k, acc, expectedCasing, second.v)
    ELSE [acc EXCEPT !.st = "error"]

\* one turn of the loop over argumentNames, first being what converters[k] made of
\* the captured text
decodeOne(route, k, acc, unconvertedValue, first) ==
    IF first.st = "ok" THEN addParam(route, k, acc, unconvertedValue, first.v)
    ELSE IF first.st = "validation" THEN [acc EXCEPT !.st = "validation"]
    ELSE IF first.st = "casing"
    THEN recased(route, k, acc, first.expected, fromUrl(route.converters[k], first.expected))
    ELSE [acc EXCEPT !.st = "error"]

\* the loop over argumentNames: [st, properUrl, params], st being "ok",
\* "validation" (continue searchWithinPrefix) or "error" (an exception leaves the loop)
RECURSIVE decodeParams(_, _, _, _)
decodeParams(route, caps, k, acc) ==
    IF k > Len(route.argumentNames) \/ acc.st # "ok" THEN acc
    ELSE decodeParams(route, caps, k + 1,
                      decodeOne(route, k, acc, caps[k], fromUrl(route.converters[k], caps[k])))

\* a route whose parameters all decoded: 301 to properUrl, or the handler
dispatch(route, params, properUrl, actualUrl, querystring) ==
    IF actualUrl # properUrl
    THEN Outcome("redirect", "dynamic", route.name, route.descriptor, params,
                 properUrl \o querystring)
    ELSE Outcome("handler", "dynamic", route.name, route.descriptor, params, <<>>)

\* searchDynamicRoutes / searchWithinPrefix, from route j of group i on
RECURSIVE searchDynamicRoutes(_, _, _, _, _, _, _)
RECURSIVE probe(_, _, _, _, _, _, _, _, _)
RECURSIVE decided(_, _, _, _, _, _, _, _, _)
searchDynamicRoutes(groups, i, j, method, actualUrl, trimmedUrl, querystring) ==
    IF i > Len(groups) THEN NotFound
    ELSE IF j = 1 /\ groups[i].prefix # <<"/">>
            /\ ~startsWith(toLowerCase(trimmedUrl), groups[i].prefix)
    THEN searchDynamicRoutes(groups, i + 1, 1, method, actualUrl, trimmedUrl, querystring)
    ELSE IF j > Len(groups[i].routes)
    THEN searchDynamicRoutes(groups, i + 1, 1, method, actualUrl, trimmedUrl, querystring)
    ELSE probe(groups, i, j, method, actualUrl, trimmedUrl, querystring,
               groups[i].routes[j], regexExec(groups[i].routes[j].pattern, trimmedUrl))

\* the body of searchWithinPrefix for one route, match being route.regex.exec(url):
\* the method is looked up before the parameters are decoded
probe(groups, i, j, method, actualUrl, trimmedUrl, querystring, route, match) ==
    IF ~match.ok
    THEN searchDynamicRoutes(groups, i, j + 1, method, actualUrl, trimmedUrl, querystring)
    ELSE IF method \notin route.descriptor.methods
    THEN Outcome("methodNotAllowed", "dynamic", route.name, route.descriptor,
                 EmptyParams, <<>>)
    ELSE decided(groups, i, j, method, actualUrl, trimmedUrl, querystring, route,
                 decodeParams(route, match.caps, 1,
                              [st |-> "ok", properUrl |-> route.literals[1],
                               params |-> EmptyParams]))

decided(groups, i, j, method, actualUrl, trimmedUrl, querystring, route, decoded) ==
    IF decoded.st = "validation"
    THEN searchDynamicRoutes(groups, i, j + 1, method, actualUrl, trimmedUrl, querystring)
    ELSE IF decoded.st = "error"
    THEN Outcome("error", "dynamic", route.name, route.descriptor, EmptyParams, <<>>)
    ELSE dispatch(route, decoded.params,
                  IF route.hasEndingSlash THEN Append(decoded.properUrl, "/")
                  ELSE decoded.properUrl,
                  actualUrl, querystring)

\* the request URL up to the first "?" and from it on
pathOf(requestUrl) ==
    IF indexOf(requestUrl, "?") # 0
    THEN SubSeq(requestUrl, 1, indexOf(requestUrl, "?") - 1) ELSE requestUrl

queryOf(requestUrl) ==
    IF indexOf(requestUrl, "?") # 0
    THEN SubSeq(requestUrl, indexOf(requestUrl, "?"), Len(requestUrl)) ELSE <<>>

\* a reset that empties the match cache alone
resetMatchCache(c, t) ==
    IF c.cacheExpirationTime < t
    THEN [c EXCEPT !.dynamicRouteCache = <<>>,
                   !.cacheExpirationTime = t + CACHE_CLEAR_TIME]
    ELSE c

\* both caches are reset once the expiration time has passed
resetCaches(c, t) ==
    IF c.cacheExpirationTime < t
    THEN [c EXCEPT !.dynamicRouteCache = <<>>, !.redirectCache = <<>>,
                   !.cacheExpirationTime = t + CACHE_CLEAR_TIME]
    ELSE c

trimUrl(actualUrl) ==
    IF Len(actualUrl) > 1 /\ actualUrl[Len(actualUrl)] = "/"
    THEN trimEndingSlashes(actualUrl) ELSE actualUrl

\* the static branch: the canonical path is compared before the method is looked up
staticOutcome(staticRoute, method, actualUrl, querystring) ==
    IF staticRoute.route # actualUrl
    THEN Outcome("redirect", "static", staticRoute.name, staticRoute.descriptor,
                 EmptyParams, staticRoute.route \o querystring)
    ELSE IF method \notin staticRoute.descriptor.methods
    THEN Outcome("methodNotAllowed", "static", staticRoute.name, staticRoute.descriptor,
                 EmptyParams, <<>>)
    ELSE Outcome("handler", "static", staticRoute.name, staticRoute.descriptor,
                 EmptyParams, <<>>)

\* a hit of the match cache
cachedOutcome(cachedResult, method) ==
    IF method \notin cachedResult.descriptor.methods
    THEN Outcome("methodNotAllowed", "cache", "", cachedResult.descriptor, EmptyParams, <<>>)
    ELSE Outcome("handler", "cache", "", cachedResult.descriptor, cachedResult.params, <<>>)

\* the prefix groups searched first, the static map only for a path that no
\* dynamic route takes
findRouteDynamicFirst(c, method, actualUrl, trimmedUrl, querystring, s) ==
    IF s = 0 \/ \E g \in 1..Len(c.dynamicRoutes) : \E j \in 1..Len(c.dynamicRoutes[g].routes) :
                   regexExec(c.dynamicRoutes[g].routes[j].pattern, trimmedUrl).ok
    THEN searchDynamicRoutes(c.dynamicRoutes, 1, 1, method, actualUrl, trimmedUrl,
                             querystring)
    ELSE staticOutcome(c.staticRoutes[s], method, actualUrl, querystring)

\* static map, then match cache, then the prefix groups; s is the index of
\* staticRoutes[lowerUrl], 0 when there is none
findRoute(c, method, actualUrl, trimmedUrl, querystring, s) ==
    IF s # 0 THEN staticOutcome(c.staticRoutes[s], method, actualUrl, querystring)
    ELSE IF actualUrl \in DOMAIN c.dynamicRouteCache
    THEN cachedOutcome(c.dynamicRouteCache[actualUrl], method)
    ELSE searchDynamicRoutes(c.dynamicRoutes, 1, 1, method, actualUrl, trimmedUrl,
                             querystring)

\* the redirect cache first, before the method is looked at
resolve(c, method, actualUrl, querystring) ==
    IF actualUrl \in DOMAIN c.redirectCache
    THEN Outcome("redirect", "redirectCache", "", NoDescriptor, EmptyParams,
                 c.redirectCache[actualUrl] \o querystring)
    ELSE findRoute(c, method, actualUrl, trimUrl(actualUrl), querystring,
                   staticIndex(c.staticRoutes, toLowerCase(trimUrl(actualUrl))))

\* a redirect recorded with the Location as sent, query string included
recordedWithQuery(c, actualUrl, querystring, outcome) ==
    [outcome |-> outcome,
     actualUrl |-> actualUrl,
     querystring |-> querystring,
     cacheExpirationTime |-> c.cacheExpirationTime,
     redirectCache |->
        IF outcome.kind = "redirect" /\ outcome.src \in {"static", "dynamic"}
        THEN (actualUrl :> outcome.location) @@ c.redirectCache
        ELSE c.redirectCache,
     dynamicRouteCache |->
        IF outcome.kind = "handler" /\ outcome.src = "dynamic"
        THEN (actualUrl :> [descriptor |-> outcome.descriptor, params |-> outcome.params])
             @@ c.dynamicRouteCache
        ELSE c.dynamicRouteCache]

\* what the request leaves in the caches: a redirect of the static or dynamic branch
\* records actualUrl -> properUrl, a dynamic match records actualUrl -> match
recorded(c, actualUrl, querystring, outcome) ==
    [outcome |-> outcome,
     actualUrl |-> actualUrl,
     querystring |-> querystring,
     cacheExpirationTime |-> c.cacheExpirationTime,
     redirectCache |->
        IF outcome.kind = "redirect" /\ outcome.src \in {"static", "dynamic"}
        THEN (actualUrl :> SubSeq(outcome.location, 1,
                                  Len(outcome.location) - Len(querystring)))
             @@ c.redirectCache
        ELSE c.redirectCache,
     dynamicRouteCache |->
        IF outcome.kind = "handler" /\ outcome.src = "dynamic"
        THEN (actualUrl :> [descriptor |-> outcome.descriptor, params |-> outcome.params])
             @@ c.dynamicRouteCache
        ELSE c.dynamicRouteCache]

answer(c, method, actualUrl, querystring) ==
    recorded(c, actualUrl, querystring, resolve(c, method, actualUrl, querystring))

\* router(request, response, next) at time t on the tables and caches of c =
\* [staticRoutes, dynamicRoutes, dynamicRouteCache, redirectCache,
\* cacheExpirationTime]: the outcome and the caches it leaves
router(c, requestMethod, requestUrl, t) ==
    answer(resetCaches(c, t), lowerMethod(requestMethod), pathOf(requestUrl),
           queryOf(requestUrl))

-----------------------------------------------------------------------------
(* The collaborators of a request: the route handler, the not-found and    *)
(* method-not-allowed handlers, and the fallback continuation next.  A     *)
(* handler is known by what it does: "end" (it answers), "throw", and for  *)
(* a route handler "next" and "nextErr" (it calls its continuation).       *)

\* one call the router makes; status and body are what the callee is known to answer
Invoke(who, args, status, body) ==
    [who |-> who, args |-> args, status |-> status, body |-> body]

Collaborator == <<"request", "response", "next">>

\* the function makeDefaultNext(request, response) returns: 500 with an error, else 404
makeDefaultNext(args) == IF args # <<>> THEN 500 ELSE 404

\* next(...): the caller's continuation, or the default one when the router was
\* called without (standalone)
callNext(args, standalone) ==
    Invoke("next", args, IF standalone THEN makeDefaultNext(args) ELSE 0, <<>>)

upperMethod(method) ==
    CASE method = "get" -> "GET" [] method = "post" -> "POST"
      [] method = "put" -> "PUT" [] method = "options" -> "OPTIONS"
      [] OTHER -> method

\* Array.prototype.join(",")
RECURSIVE join(_)
join(array) ==
    IF array = <<>> THEN <<>>
    ELSE IF Len(array) = 1 THEN array
    ELSE <<Head(array), ",">> \o join(Tail(array))

\* methodNotAllowedHandler(request, response, next); the default one answers a bare 405
callMethodNotAllowed(c) ==
    [calls |-> <<Invoke("methodNotAllowedHandler", Collaborator,
                        IF c.methodNotAllowedHandler = "default" THEN 405 ELSE 0, <<>>)>>,
     threw |-> c.methodNotAllowedHandler = "throw"]

\* if (notFoundHandler) notFoundHandler(request, response, next); else next();
callNotFound(c, standalone) ==
    IF c.notFoundHandler # "null"
    THEN [calls |-> <<Invoke("notFoundHandler", Collaborator, 0, <<>>)>>,
          threw |-> c.notFoundHandler = "throw"]
    ELSE [calls |-> <<callNext(<<>>, standalone)>>, threw |-> FALSE]

\* a continuation that takes no error argument: function () { notFoundHandler(...) }
continuationIgnoringError(c, err, standalone) ==
    IF c.notFoundHandler = "null"
    THEN [calls |-> <<callNext(IF err THEN <<"err">> ELSE <<>>, standalone)>>,
          threw |-> FALSE]
    ELSE [calls |-> <<Invoke("notFoundHandler", Collaborator, 0, <<>>)>>,
          threw |-> c.notFoundHandler = "throw"]

\* the continuation a route handler is given: next itself when no not-found handler
\* is configured, else function (err) { if (err) next(err); else notFoundHandler(...) }
continuation(c, err, standalone) ==
    IF c.notFoundHandler = "null"
    THEN [calls |-> <<callNext(IF err THEN <<"err">> ELSE <<>>, standalone)>>,
          threw |-> FALSE]
    ELSE IF err THEN [calls |-> <<callNext(<<"err">>, standalone)>>, threw |-> FALSE]
    ELSE [calls |-> <<Invoke("notFoundHandler", Collaborator, 0, <<>>)>>,
          threw |-> c.notFoundHandler = "throw"]

\* callback.call(descriptor, request, response, params, continuation): the options
\* handler createOptionsHandler made answers 200 with the joined list as Allow and
\* body; a handler of the caller does what does says
callback(c, outcome, method, does, standalone) ==
    LET params == <<"request", "response", "params", "next">>
    IN  IF method = "options" /\ outcome.descriptor.synthesized
        THEN [calls |-> <<Invoke("options", params, 200,
                                 join([i \in 1..Len(outcome.descriptor.allow) |->
                                          upperMethod(outcome.descriptor.allow[i])]))>>,
              threw |-> FALSE]
        ELSE LET called == <<Invoke("callback", params, 0, <<>>)>>
                 continued == continuation(c, does = "nextErr", standalone)
             IN  CASE does = "end" -> [calls |-> called, threw |-> FALSE]
                   [] does = "throw" -> [calls |-> called, threw |-> TRUE]
                   [] OTHER -> [calls |-> called \o continued.calls,
                                threw |-> continued.threw]

\* the body of the router's try block from the point the outcome is decided
tryRouter(c, outcome, method, does, standalone) ==
    CASE outcome.kind = "error" -> [calls |-> <<>>, threw |-> TRUE]
      [] outcome.kind = "redirect" ->
            [calls |-> <<Invoke("movedPermanently", outcome.location, 301, <<>>)>>,
             threw |-> FALSE]
      [] outcome.kind = "methodNotAllowed" -> callMethodNotAllowed(c)
      [] outcome.kind = "notFound" -> callNotFound(c, standalone)
      [] OTHER -> callback(c, outcome, method, does, standalone)

\* the try block without its catch
collaborateUncaught(c, outcome, method, does, standalone) ==
    tryRouter(c, outcome, method, does, standalone).calls

\* try { ... } catch (err) { next(err); }: the calls one request makes, in order
collaborate(c, outcome, method, does, standalone) ==
    LET tried == tryRouter(c, outcome, method, does, standalone)
    IN  IF tried.threw THEN Append(tried.calls, callNext(<<"err">>, standalone))
        ELSE tried.calls

-----------------------------------------------------------------------------
(* router.serialize() and the client built from it (escort-client.js).     *)

RECURSIVE flattenRoutes(_)
flattenRoutes(groups) ==
    IF groups = <<>> THEN <<>> ELSE Head(groups).routes \o flattenRoutes(Tail(groups))

RECURSIVE staticEntriesOf(_, _)
staticEntriesOf(entries, name) ==
    IF entries = <<>> THEN <<>>
    ELSE (IF Head(entries).name = name
          THEN << [path |-> Head(entries).route, literals |-> <<>>, params |-> <<>>] >>
          ELSE <<>>)
         \o staticEntriesOf(Tail(entries), name)

RECURSIVE dynamicEntriesOf(_, _)
dynamicEntriesOf(routes, name) ==
    IF routes = <<>> THEN <<>>
    ELSE (IF Head(routes).name = name
          THEN << [path |-> <<>>,
                   literals |-> Head(routes).literals,
                   params |-> [i \in 1..Len(Head(routes).argumentNames) |->
                                  [name |-> Head(routes).argumentNames[i],
                                   type |-> serialize(Head(routes).converters[i]).type,
                                   fixedDigits |->
                                       serialize(Head(routes).converters[i]).fixedDigits]]] >>
          ELSE <<>>)
         \o dynamicEntriesOf(Tail(routes), name)

\* router.serialize()[name]: the static entries in insertion order, then the dynamic
\* routes in table order
routerSerialize(t, name) ==
    staticEntriesOf(t.staticRoutes, name)
    \o dynamicEntriesOf(flattenRoutes(t.dynamicRoutes), name)

\* the function generateDynamicUrlFunction(route, converters) builds, called with the
\* parameter values in declared order
generateDynamicUrlFunction(route, args) ==
    LET n == Len(route.params)
        argument(j) == IF j <= Len(args) THEN args[j] ELSE Undef
        valueOf(i) == argument(CHOOSE j \in 1..n :
                               /\ route.params[j].name = route.params[i].name
                               /\ \A k \in (j + 1)..n :
                                     route.params[k].name # route.params[i].name)
        RECURSIVE build(_)
        build(i) ==
            IF i > n THEN <<>>
            ELSE clientToUrl(route.params[i], valueOf(i))
                 \o (IF i + 1 <= Len(route.literals) THEN route.literals[i + 1] ELSE <<>>)
                 \o build(i + 1)
    IN  route.literals[1] \o build(1)

\* generateUrlFunction(routes, converters) of the client, called with args: the
\* backwards traversal leaves the first static path and the first dynamic route
clientGenerateUrlFunction(routes, args) ==
    LET statics == {i \in 1..Len(routes) : routes[i].path # <<>>}
        dynamics == {i \in 1..Len(routes) : routes[i].path = <<>>}
        staticRoute == routes[CHOOSE i \in statics : \A j \in statics : i <= j].path
        dynamicRoute == routes[CHOOSE i \in dynamics : \A j \in dynamics : i <= j]
    IN  IF statics # {} /\ dynamics # {}
        THEN IF Len(args) = 0 THEN staticRoute
             ELSE generateDynamicUrlFunction(dynamicRoute, args)
        ELSE IF statics # {} THEN staticRoute
        ELSE generateDynamicUrlFunction(dynamicRoute, args)

\* escortClient.generateUrlObject(router.serialize())[name](args...)
generateUrlObject(t, name, args) == clientGenerateUrlFunction(routerSerialize(t, name), args)

-----------------------------------------------------------------------------
(* The state machine.                                                      *)

tables == [staticRoutes |-> staticRoutes, dynamicRoutes |-> dynamicRoutes,
           urlGenerators |-> urlGenerators]

serving == [staticRoutes |-> staticRoutes, dynamicRoutes |-> dynamicRoutes,
            dynamicRouteCache |-> dynamicRouteCache, redirectCache |-> redirectCache,
            cacheExpirationTime |-> cacheExpirationTime]

collaborators == [notFoundHandler |-> notFoundHandler,
                  methodNotAllowedHandler |-> methodNotAllowedHandler]

NoneGenerated == [name |-> "", args |-> <<>>, url |-> <<>>, clientUrl |-> <<>>]

Init ==
    /\ staticRoutes = <<>>
    /\ dynamicRoutes = <<>>
    /\ urlGenerators = <<>>
    /\ dynamicRouteCache = <<>>
    /\ redirectCache = <<>>
    /\ cacheExpirationTime = 0
    /\ recordedAt = <<>>
    /\ now = 1
    /\ binds = 0
    /\ requests = 0
    /\ generated = NoneGenerated
    /\ notFoundHandler = "null"
    /\ methodNotAllowedHandler = "default"
    /\ last = [op |-> "init"]

\* the tables as a bind call leaves them
Bound(call, r) ==
    /\ staticRoutes' = r.staticRoutes
    /\ dynamicRoutes' = r.dynamicRoutes
    /\ urlGenerators' = r.urlGenerators
    /\ last' = [op |-> "bind", call |-> call, err |-> r.err, name |-> r.name]

\* the caches as a request leaves them, and the calls it made
Served(method, r, does, standalone) ==
    /\ dynamicRouteCache' = r.dynamicRouteCache
    /\ redirectCache' = r.redirectCache
    /\ cacheExpirationTime' = r.cacheExpirationTime
    /\ recordedAt' = [path \in DOMAIN r.redirectCache \cup DOMAIN r.dynamicRouteCache |->
                        IF path \in DOMAIN recordedAt
                           /\ r.cacheExpirationTime = cacheExpirationTime
                        THEN recordedAt[path] ELSE now]
    /\ last' = [op |-> "request", method |-> method, url |-> r.actualUrl,
                querystring |-> r.querystring, outcome |-> r.outcome,
                does |-> does, standalone |-> standalone,
                calls |-> collaborate(collaborators, r.outcome, lowerMethod(method),
                                      does, standalone)]

\* router.bind(...) while the application is configured, before it serves; a call
\* that throws is caught by the caller
Bind(call) ==
    /\ binds < MaxBinds
    /\ requests = 0
    /\ generated = NoneGenerated
    /\ Bound(call, bind(tables, call))
    /\ binds' = binds + 1
    /\ UNCHANGED <<dynamicRouteCache, redirectCache, cacheExpirationTime, recordedAt, now, requests,
                   generated, notFoundHandler, methodNotAllowedHandler>>

\* router.url[name](args...) and the client's function of the same name
Generate(name, args) ==
    /\ requests = 0
    /\ name \in DOMAIN urlGenerators
    /\ generated' = [name |-> name, args |-> args,
                     url |-> url(urlGenerators[name], args),
                     clientUrl |-> generateUrlObject(tables, name, args)]
    /\ last' = [op |-> "url", name |-> name]
    /\ UNCHANGED <<staticRoutes, dynamicRoutes, urlGenerators, dynamicRouteCache,
                   redirectCache, cacheExpirationTime, recordedAt, now, binds, requests,
                   notFoundHandler, methodNotAllowedHandler>>

\* router.notFound(handler): the handler is kept, a missing one is refused
notFound(handler) ==
    /\ requests = 0
    /\ notFoundHandler' = IF handler = "null" THEN notFoundHandler ELSE handler
    /\ last' = [op |-> "notFound", handler |-> handler,
                err |-> IF handler = "null" THEN "Callback function is expected" ELSE ""]
    /\ UNCHANGED <<staticRoutes, dynamicRoutes, urlGenerators, dynamicRouteCache,
                   redirectCache, cacheExpirationTime, recordedAt, now, binds, requests, generated,
                   methodNotAllowedHandler>>

\* router.methodNotAllowed(handler)
methodNotAllowed(handler) ==
    /\ requests = 0
    /\ methodNotAllowedHandler' = IF handler = "null" THEN methodNotAllowedHandler
                                  ELSE handler
    /\ last' = [op |-> "methodNotAllowed", handler |-> handler,
                err |-> IF handler = "null" THEN "Callback function is expected" ELSE ""]
    /\ UNCHANGED <<staticRoutes, dynamicRoutes, urlGenerators, dynamicRouteCache,
                   redirectCache, cacheExpirationTime, recordedAt, now, binds, requests, generated,
                   notFoundHandler>>

\* one request through the router: the route handler, if it is reached, does what
\* does says; standalone is the call without a next
Route(method, requestUrl, does, standalone) ==
    /\ requests < MaxRequests
    /\ Served(method, router(serving, method, requestUrl, now), does, standalone)
    /\ requests' = requests + 1
    /\ UNCHANGED <<staticRoutes, dynamicRoutes, urlGenerators, now, binds, generated,
                   notFoundHandler, methodNotAllowedHandler>>

\* one request through the router, under connect, whose handler answers
Request(method, requestUrl) == Route(method, requestUrl, "end", FALSE)

\* time passes between two requests
Tick(d) ==
    /\ requests > 0
    /\ now + d <= 1 + MaxTicks * (CACHE_CLEAR_TIME + 1)
    /\ now' = now + d
    /\ UNCHANGED <<staticRoutes, dynamicRoutes, urlGenerators, dynamicRouteCache,
                   redirectCache, cacheExpirationTime, recordedAt, binds, requests, generated,
                   notFoundHandler, methodNotAllowedHandler, last>>

\* parseOptionalRoutes(routes), as bind applies it to its route argument
Expand(routes) ==
    /\ binds < MaxExpands
    /\ requests = 0
    /\ last' = [op |-> "expand", routes |-> routes, result |-> parseOptionalRoutes(routes)]
    /\ binds' = binds + 1
    /\ UNCHANGED <<staticRoutes, dynamicRoutes, urlGenerators, dynamicRouteCache,
                   redirectCache, cacheExpirationTime, recordedAt, now, requests, generated,
                   notFoundHandler, methodNotAllowedHandler>>

-----------------------------------------------------------------------------
(* The inputs: bind calls, requests, generator arguments, route strings.   *)

Get == << <<"get">> >>
GetPost == << <<"get", "post">> >>

Call(id, name, routes, descriptor) ==
    [id |-> id, name |-> name, routes |-> routes, descriptor |-> descriptor,
     prefix |-> <<>>]

Req(method, requestUrl) == [method |-> method, url |-> requestUrl]

\* the configuration calls of the serving specification
BindCalls ==
    {Call(1, "sa", << <<"/", "a">> >>, Get),
     Call(2, "sb", << <<"/", "B", "/">> >>, GetPost),
     Call(3, "ds", << <<"/", "{x}">> >>, Get),
     Call(4, "di", << <<"/", "{n:int}">> >>, Get),
     Call(5, "dt", << <<"/", "A", "/", "{x}", "/">> >>, Get),
     Call(6, "dk", << <<"/", "{k:any('Ab','c')}">> >>, GetPost),
     Call(7, "pg", << <<"/", "[", "a", "/", "{n:int({min:1,max:99})}", "]">> >>, Get)}

ServedPaths ==
    {<<"/", "a">>, <<"/", "A">>, <<"/", "a", "/">>, <<"/", "A", "%", "2", "F">>,
     <<"/", "1">>, <<"/", "0", "1">>, <<"/", "b">>, <<"/", "B", "/">>,
     <<"/", "A", "/", "b">>, <<"/", "a", "/", "b", "/">>, <<"/", "c">>, <<"/", "A", "b">>}

Requests ==
    {Req("GET", path) : path \in ServedPaths}
    \cup {Req("POST", path) : path \in {<<"/", "a">>, <<"/", "b">>, <<"/", "A", "/", "b">>,
                                        <<"/", "c">>}}
    \cup {Req("GET", path \o <<"?", "q">>) :
             path \in {<<"/", "A">>, <<"/", "a", "/">>, <<"/", "b">>}}

\* the configuration calls of the matching and generating specifications
MatchCalls ==
    BindCalls
    \cup {Call(8, "du", << <<"/", "A", "/", "{x:string({allowUpperCase:true})}">> >>, Get),
          Call(9, "dp", << <<"/", "{p:path}">> >>, Get),
          Call(10, "mp", << <<"/", "p", "[", "/", "{x}", "[", "/", "{y}", "]", "]">> >>, Get),
          Call(11, "ai", << <<"/", "A", "/", "{n:int}">> >>, Get),
          Call(12, "xn", << <<"/", "{x}", "/", "{n:int}">> >>, Get)}

Segments ==
    {<<"a">>, <<"A">>, <<"b">>, <<"B">>, <<"1">>, <<"0", "1">>, <<"1", "0", "0">>,
     <<"A", "b">>, <<"a", "B">>, <<"a", "b">>, <<"c">>, <<"C">>, <<"p">>,
     <<"A", "%", "2", "F">>, <<"a", "%", "2", "f", "b">>, <<"a", "%", "2", "F", "b">>}

FirstSegments == {<<"a">>, <<"A">>, <<"p">>}

MatchPaths ==
    {<<"/">>}
    \cup {<<"/">> \o s : s \in Segments}
    \cup {<<"/">> \o s \o <<"/">> : s \in Segments}
    \cup {<<"/">> \o f \o <<"/">> \o s : f \in FirstSegments, s \in Segments}
    \cup {<<"/">> \o f \o <<"/">> \o s \o <<"/">> : f \in FirstSegments, s \in Segments}
    \cup {<<"/", "a", "/", "/">>, <<"/", "p", "/", "a", "/", "b">>}

MatchRequests ==
    {Req(method, path) : method \in {"GET", "POST", "OPTIONS"}, path \in MatchPaths}
    \cup {Req("GET", path \o <<"?", "q">>) : path \in MatchPaths}

\* the values a generator is called with
Values ==
    {Str(<<"a">>), Str(<<"A", "b">>), Str(<<"c">>), Str(<<"b">>), Str(<<"1">>),
     Str(<<"a", "/", "b">>), Num(0), Num(1), Num(42), Num(100)}

ArgLists ==
    {<<>>}
    \cup {<<v>> : v \in Values}
    \cup {<<v, w>> : v \in {Str(<<"a">>), Str(<<"b">>)}, w \in {Str(<<"b">>), Num(1), Num(42)}}

CallNames == {call.name : call \in MatchCalls}

\* the configuration calls of the int specification: routes under /p/
IntTokens ==
    {"{n:int}", "{n:int({min:1,max:99})}", "{n:int({min:0,max:9})}",
     "{n:int({min:5,max:5})}", "{n:int({min:10})}", "{n:int({max:100})}"}
    \cup {IntFixedToken(d) : d \in 1..MaxDigits}

IntCalls ==
    {Call(1, "pn", << <<"/", "p", "/", token>> >>, Get) : token \in IntTokens}
    \cup {Call(2, "px", << <<"/", "p", "/", "{x}">> >>, Get)}

ProbeDigits == {"0", "1", "5", "9"}

RECURSIVE digitStrings(_)
digitStrings(n) ==
    IF n = 0 THEN {<<>>}
    ELSE LET shorter == digitStrings(n - 1)
         IN  shorter \cup {Append(s, d) : s \in {t \in shorter : Len(t) = n - 1},
                                          d \in ProbeDigits}

IntRequests == {Req("GET", <<"/", "p", "/">> \o s) : s \in digitStrings(MaxDigits) \ {<<>>}}

RECURSIVE pow10(_)
pow10(n) == IF n <= 0 THEN 1 ELSE 10 * pow10(n - 1)

IntValues ==
    {0, 1, 5, 9, 10, 42, 99, 100} \cup {pow10(d) - 1 : d \in 1..MaxDigits}

\* route strings for the expander: every properly nested string over a, b, [ and ]
\* up to MaxRouteLen characters, and strings with parameter tokens
RECURSIVE stringsOver(_, _)
stringsOver(chars, n) ==
    IF n = 0 THEN {<<>>}
    ELSE LET shorter == stringsOver(chars, n - 1)
         IN  shorter \cup {Append(s, c) : s \in {t \in shorter : Len(t) = n - 1},
                                          c \in chars}

RECURSIVE nesting(_, _, _)
nesting(s, i, depth) ==
    IF depth < 0 THEN -1
    ELSE IF i > Len(s) THEN depth
    ELSE nesting(s, i + 1, IF s[i] = "[" THEN depth + 1
                           ELSE IF s[i] = "]" THEN depth - 1 ELSE depth)

balanced(s) == nesting(s, 1, 0) = 0

BracketRoutes == {s \in stringsOver({"a", "b", "[", "]"}, MaxRouteLen) : balanced(s)}

TokenRoutes ==
    {<<"/", "d", "[", ".", "{", "f", "}", "]">>,
     <<"/", "{", "n", ":", "c", "(", "[", "1", "]", ")", "}">>,
     <<"/", "a", "[", "{", "[", "}", "]">>,
     <<"/", "d", "[", "/", "{x}", "[", "/", "{y}", "]", "]">>,
     <<"/", "d", "[", "/", "a", "[", "/", "b", "]", "]">>,
     <<"/", "d", "[", "/", "a", "[", "/", "b", "]", "/", "c", "]">>,
     <<"/", "d", "[", "/", "a", "]", "[", "/", "b", "]">>}

ExpandInputs ==
    {<<s>> : s \in BracketRoutes \cup TokenRoutes}
    \cup {<<s, t>> : s, t \in {<<"a", "[", "b", "]">>, <<"a">>, <<"a", "b">>,
                               <<"[", "a", "]", "b">>}}

\* a bind made inside submount(prefix, ...)
Submounted(prefix, call) == [call EXCEPT !.prefix = prefix]

\* the configuration calls of the binding specification: names used twice, paths
\* and patterns bound twice, paths validatePath refuses, paths with an ending slash
NameCalls ==
    {Call(21, "nm", << <<"/", "e">>, <<"e">> >>, Get),
     Call(22, "nm", << <<"/", "t">> >>, GetPost),
     Call(23, "ne", << <<"/", "E">> >>, Get),
     Call(24, "nm", << <<"/", "{y}">>, <<"/", "{x}">> >>, Get),
     Call(25, "dx", << <<"/", "{x}">> >>, Get),
     Call(26, "sl", << <<"/", "a", "/">> >>, Get),
     Call(27, "dl", << <<"/", "b", "/", "{x}", "/">> >>, Get),
     Call(28, "na", << <<"a">> >>, Get),
     Call(29, "nd", << <<"/", "a", "/", "/", "b">> >>, Get),
     Call(30, "nw", << <<"/", "a", "?", "b">> >>, Get),
     Call(31, "no", << <<"/", "a", "[", "/", "/", "{x}", "]">> >>, Get),
     Call(32, "nx", << <<"/", "{x}", "?">> >>, Get),
     Submounted(<<"/", "u", "/">>, Call(33, "su", << <<"/", "b">> >>, Get)),
     Submounted(<<"/", "u">>, Call(34, "sv", << <<"/", "b", "/">> >>, Get)),
     Submounted(<<"/", "u">>, Call(35, "sw", << <<"b">> >>, Get)),
     Call(36, "rt", << <<"/">> >>, Get),
     Call(37, "se", << <<"/", "e">> >>, Get)}

BindRequests ==
    {Req("GET", path) :
        path \in {<<"/", "a">>, <<"/", "a", "/">>, <<"/", "b", "/", "c">>,
                  <<"/", "b", "/", "c", "/">>, <<"/", "u", "/", "b">>,
                  <<"/", "u", "/", "b", "/">>, <<"/">>, <<"/", "e">>}}

\* the configuration calls of the collaborator specification: a static route, a
\* ranged int route for GET and a string route for GET and POST under one prefix,
\* and a route with an options handler of its own
ServeCalls ==
    {Call(41, "sa", << <<"/", "a">> >>, Get),
     Call(42, "pr", << <<"/", "p", "/", "{n:int({min:1,max:99})}">> >>, Get),
     Call(43, "px", << <<"/", "p", "/", "{x}">> >>, GetPost),
     Call(44, "so", << <<"/", "c">> >>, << <<"get", "options">> >>),
     Call(45, "st", << <<"/", "t", "/">> >>, << <<"put">>, <<"post">> >>)}

ServePaths ==
    {<<"/", "a">>, <<"/", "A">>, <<"/", "c">>, <<"/", "t", "/">>, <<"/", "d">>,
     <<"/", "p", "/", "5">>, <<"/", "p", "/", "1", "0", "0">>, <<"/", "p", "/", "b">>,
     <<"/", "p", "/", "%">>}

ServeRequests ==
    {Req(method, path) : method \in {"GET", "POST", "OPTIONS"}, path \in ServePaths}

\* what a route handler may do: answer, call its continuation without or with an
\* error, or throw
HandlerDoes == {"end", "next", "nextErr", "throw"}

\* what a configured collaborator may do (and the call without a handler)
CollaboratorDoes == {"end", "throw", "null"}

\* the configuration calls and requests of the query string specification: a static
\* route with an ending slash and a string route, requested with and without query
\* strings
QueryCalls == {call \in BindCalls : call.name \in {"sb", "ds"}}

QueryRequests ==
    {Req("GET", path \o query) :
        path \in {<<"/", "b">>, <<"/", "B", "/">>, <<"/", "A">>},
        query \in {<<>>, <<"?", "q">>, <<"?", "u">>}}
    \cup {Req("GET", <<"/", "A", "?", "u", "?", "q">>), Req("POST", <<"/", "a", "?", "q">>)}

-----------------------------------------------------------------------------
(* The specifications.                                                     *)

\* configuration, then requests with time passing between them
Next ==
    \/ \E call \in BindCalls : Bind(call)
    \/ \E r \in Requests : Request(r.method, r.url)
    \/ \E d \in {CACHE_CLEAR_TIME, CACHE_CLEAR_TIME + 1} : Tick(d)

Spec == Init /\ [][Next]_vars

\* configuration from the larger pool, then one request on empty caches
NextMatch ==
    \/ \E call \in MatchCalls : Bind(call)
    \/ \E r \in MatchRequests : requests = 0 /\ Request(r.method, r.url)

SpecMatch == Init /\ [][NextMatch]_vars

\* configuration, a generated URL, and the request for that URL
NextUrl ==
    \/ \E call \in MatchCalls : Bind(call)
    \/ \E name \in CallNames, args \in ArgLists :
          generated = NoneGenerated /\ Generate(name, args)
    \/ \E method \in {"GET", "POST"} :
          generated # NoneGenerated /\ requests = 0 /\ Request(method, generated.url)

SpecUrl == Init /\ [][NextUrl]_vars

\* int routes: requests with digit strings, and generated URLs
NextInt ==
    \/ \E call \in IntCalls : Bind(call)
    \/ \E r \in IntRequests : requests = 0 /\ Request(r.method, r.url)
    \/ \E name \in {"pn", "px"}, v \in IntValues :
          generated = NoneGenerated /\ Generate(name, <<Num(v)>>)

SpecInt == Init /\ [][NextInt]_vars

\* the expander alone
NextExpand == \E routes \in ExpandInputs : Expand(routes)

SpecExpand == Init /\ [][NextExpand]_vars

\* configuration from the pool of colliding and refused calls, then one request
NextBind ==
    \/ \E call \in NameCalls : Bind(call)
    \/ \E r \in BindRequests : requests = 0 /\ Request(r.method, r.url)

SpecBind == Init /\ [][NextBind]_vars

\* configuration of routes and collaborators, then one request whose handler may
\* answer, continue or throw, under connect or standalone
NextServe ==
    \/ \E call \in ServeCalls : Bind(call)
    \/ \E handler \in CollaboratorDoes : notFound(handler)
    \/ \E handler \in CollaboratorDoes : methodNotAllowed(handler)
    \/ \E r \in ServeRequests, does \in HandlerDoes, standalone \in BOOLEAN :
          requests = 0 /\ Route(r.method, r.url, does, standalone)

SpecServe == Init /\ [][NextServe]_vars

\* configuration, then requests with query strings and time passing between them
NextQuery ==
    \/ \E call \in QueryCalls : Bind(call)
    \/ \E r \in QueryRequests : Request(r.method, r.url)
    \/ \E d \in {CACHE_CLEAR_TIME, CACHE_CLEAR_TIME + 1} : Tick(d)

SpecQuery == Init /\ [][NextQuery]_vars

\* the configuration calls and requests of the ordering specification: routes of
\* three prefix groups, some with equal weight vectors, bound in every order
OrderCalls ==
    {Call(51, "oa", << <<"/", "{x}", "/", "a">> >>, Get),
     Call(52, "ob", << <<"/", "{x}", "/", "b">> >>, Get),
     Call(53, "ou", << <<"/", "{x}", "/", "A">> >>, GetPost),
     Call(54, "oi", << <<"/", "{n:int}", "/", "a">> >>, Get),
     Call(55, "ox", << <<"/", "{x}">> >>, Get),
     Call(56, "ga", << <<"/", "a", "/", "{x}">> >>, Get),
     Call(57, "gb", << <<"/", "b", "/", "{x}">> >>, Get),
     Call(58, "gu", << <<"/", "A", "/", "{n:int}">> >>, Get),
     Call(59, "gz", << <<"/", "a", "b", "/", "{z:zip}">> >>, Get)}

OrderRequests ==
    {Req("GET", path) :
        path \in {<<"/", "c", "/", "a">>, <<"/", "c", "/", "b">>, <<"/", "1", "/", "a">>,
                  <<"/", "a", "/", "c">>, <<"/", "b", "/", "c">>, <<"/", "a", "/", "1">>}}

\* configuration in any order, then one request
NextOrder ==
    \/ \E call \in OrderCalls : Bind(call)
    \/ \E r \in OrderRequests : requests = 0 /\ Request(r.method, r.url)

SpecOrder == Init /\ [][NextOrder]_vars

\* the configuration calls and requests of the casing specification: a route for
\* each converter that signals a casing failure, requested with upper-case letters
\* and percent-escapes
CasingCalls ==
    {Call(61, "cs", << <<"/", "{x}">> >>, GetPost),
     Call(62, "cp", << <<"/", "p", "/", "{p:path}">> >>, Get),
     Call(63, "ck", << <<"/", "{k:any('Ab','c')}">> >>, Get),
     Call(64, "cu", << <<"/", "A", "/", "{x:string({allowUpperCase:true})}">> >>, Get)}

CasingSegments ==
    {<<"a">>, <<"A">>, <<"%", "4", "1">>, <<"A", "%", "2", "5">>, <<"a", "%", "2", "5">>,
     <<"A", "%", "2", "5", "4", "1">>, <<"A", "B">>, <<"a", "b">>, <<"A", "b">>, <<"C">>,
     <<"A", "/", "b", "%", "2", "5">>, <<"A", "%", "2", "F", "b">>, <<"%">>}

CasingRequests ==
    {Req("GET", prefix \o segment) :
        prefix \in {<<"/">>, <<"/", "p", "/">>, <<"/", "a", "/">>},
        segment \in CasingSegments}
    \cup {Req("POST", <<"/", "A", "%", "2", "5">>), Req("GET", <<"/", "A", "/">>)}

\* configuration, then one request
NextCasing ==
    \/ \E call \in CasingCalls : Bind(call)
    \/ \E r \in CasingRequests : requests = 0 /\ Request(r.method, r.url)

SpecCasing == Init /\ [][NextCasing]_vars

-----------------------------------------------------------------------------
(* Notions the properties are stated with.                                 *)

handled == last.op = "request" /\ last.outcome.kind = "handler"
redirected == last.op = "request" /\ last.outcome.kind = "redirect"

\* the path of a Location, without the query string
locationPath == pathOf(last.outcome.location)

allRoutes == flattenRoutes(dynamicRoutes)

hasUpper(text) == text # toLowerCase(text)

endsWithSlash(path) == Len(path) > 1 /\ path[Len(path)] = "/"

\* url[n](p) for a parameter object p: each declared name takes p's value
argsOf(argumentNames, p) ==
    [i \in 1..Len(argumentNames) |->
        IF argumentNames[i] \in DOMAIN p THEN p[argumentNames[i]] ELSE Undef]

\* the values a converter decodes to: what a parameter set may hold for it
accepts(conv, v) ==
    CASE conv.type = "string" ->
            /\ v.t = "str" /\ v.s # <<>> /\ isASCII(v.s)
            /\ conv.args.allowUpperCase \/ ~hasUpper(v.s)
      [] conv.type = "path" ->
            /\ v.t = "str" /\ isPathText(v.s) /\ isASCII(v.s) /\ ~hasUpper(v.s)
      [] conv.type = "int" ->
            /\ v.t = "num"
            /\ conv.args.hasMin => v.n >= conv.args.min
            /\ conv.args.hasMax => v.n <= conv.args.max
            /\ conv.args.fixedDigits # 0 => v.n < pow10(conv.args.fixedDigits)
      [] conv.type = "any" ->
            /\ v.t = "str"
            /\ \E i \in 1..Len(conv.args.values) : conv.args.values[i] = v.s

acceptsAll(converters, args) ==
    /\ Len(args) = Len(converters)
    /\ \A i \in 1..Len(args) : accepts(converters[i], args[i])

\* the path the router reassembles for a route and parameter values: the literals,
\* the encoded values, and the trailing slash the route was bound with
canonicalPath(route, args) ==
    generate([literals |-> route.literals, argumentNames |-> route.argumentNames,
              converters |-> route.converters], args)
    \o (IF route.hasEndingSlash THEN <<"/">> ELSE <<>>)

\* the canonical paths of the bound routes, for the parameter values of ArgLists
dynamicCanonicalPaths(route) ==
    {canonicalPath(route, args) :
        args \in {a \in ArgLists : acceptsAll(route.converters, a)}}

bound(method, descriptor) == lowerMethod(method) \in descriptor.methods

-----------------------------------------------------------------------------
(* The properties.                                                         *)

\* C1: whenever a request is dispatched to the handler of a dynamic route bound
\* under name n with decoded parameters p, the request path is exactly url[n](p);
\* and the Location path of a redirect issued for a dynamic match with canonical
\* parameters p is exactly url[n](p).
C1_MatcherGeneratorConsistency ==
    (last.op = "request" /\ last.outcome.src = "dynamic"
        /\ last.outcome.kind \in {"handler", "redirect"})
    => LET generator == urlGenerators[last.outcome.name]
           canonical == url(generator,
                            argsOf(generator.dynamic.argumentNames, last.outcome.params))
       IN  IF last.outcome.kind = "handler" THEN last.url = canonical
           ELSE locationPath = canonical

\* C1, the failing case: /01 is dispatched to the int route with n = 1, and the
\* generator's URL for n = 1 is /1
C1_DispatchedOffCanonical ==
    /\ handled
    /\ last.url = <<"/", "0", "1">>
    /\ last.outcome.name = "di"
    /\ last.outcome.params = ("n" :> Num(1))
    /\ url(urlGenerators["di"], <<Num(1)>>) = <<"/", "1">>

\* C2: for every bound route and every parameter set its converters accept, the
\* request for the URL the route's generator produces is dispatched to that route's
\* descriptor with decoded parameters equal to the set: no redirect, no capture by
\* another route.
C2_RoundTrip ==
    (last.op = "request" /\ last.method = "GET" /\ generated # NoneGenerated
        /\ LET g == urlGenerators[generated.name]
           IN  IF Len(generated.args) = 0 THEN g.static.has
               ELSE g.dynamic.has /\ acceptsAll(g.dynamic.converters, generated.args))
    => /\ last.outcome.kind = "handler"
       /\ last.outcome.name = generated.name
       /\ LET names == urlGenerators[generated.name].dynamic.argumentNames
          IN  IF Len(generated.args) = 0 THEN last.outcome.params = EmptyParams
              ELSE /\ DOMAIN last.outcome.params = {names[i] : i \in 1..Len(names)}
                   /\ argsOf(names, last.outcome.params) = generated.args

\* C2, the failing case: the URL generated for the route bound as /A/{x}/ is
\* answered with a redirect
C2_GeneratedUrlRedirected ==
    /\ redirected
    /\ generated.name = "dt"
    /\ generated.args = <<Str(<<"a">>)>>
    /\ last.url = generated.url
    /\ last.outcome.name = "dt"
    /\ locationPath = <<"/", "A", "/", "a", "/">>

\* C3: the path in the Location of a 301 is canonical: the request for it that
\* follows is never answered with another redirect.
C3_NoRedirectChain ==
    [][(redirected /\ last'.op = "request" /\ requests' = requests + 1
           /\ last'.url \o last'.querystring = last.outcome.location)
       => last'.outcome.kind # "redirect"]_vars

\* C3, the failing case: the Location of the 301 for /A%2F is /a/, and the request
\* for /a/ is answered with a 301 again
C3_RedirectAfterRedirect ==
    /\ redirected
    /\ last.url = <<"/", "a", "/">>
    /\ <<"/", "A", "%", "2", "F">> \in DOMAIN redirectCache
    /\ redirectCache[<<"/", "A", "%", "2", "F">>] = last.url

\* C4: for a bound route with canonical path P (a static path, or a dynamic path
\* whose literals contain upper-case letters), a request for a same-length case
\* variant of P other than P is answered 301 with Location P, and a request for P
\* with a bound method is dispatched to the handler.
C4_CaseInsensitiveLookup ==
    last.op = "request"
    => /\ \A i \in 1..Len(staticRoutes) :
             LET P == staticRoutes[i].route
             IN  /\ (toLowerCase(last.url) = toLowerCase(P) /\ last.url # P)
                    => (last.outcome.kind = "redirect" /\ locationPath = P)
                 /\ (last.url = P /\ bound(last.method, staticRoutes[i].descriptor))
                    => (last.outcome.kind = "handler"
                        /\ last.outcome.name = staticRoutes[i].name)
       /\ \A i \in 1..Len(allRoutes) :
             (\E k \in 1..Len(allRoutes[i].literals) : hasUpper(allRoutes[i].literals[k]))
             => \A P \in dynamicCanonicalPaths(allRoutes[i]) :
                   /\ (toLowerCase(last.url) = toLowerCase(P) /\ last.url # P)
                      => (last.outcome.kind = "redirect" /\ locationPath = P)
                   /\ (last.url = P /\ bound(last.method, allRoutes[i].descriptor))
                      => (last.outcome.kind = "handler"
                          /\ last.outcome.name = allRoutes[i].name)

\* C4, the failing case: a case variant of a dynamic route's canonical path,
\* requested with a method the route does not bind, is answered 405
C4_CaseVariantNotAllowed ==
    /\ last.op = "request"
    /\ last.method = "POST"
    /\ last.url = <<"/", "a", "/", "b", "/">>
    /\ last.outcome.kind = "methodNotAllowed"
    /\ last.outcome.name = "dt"
    /\ <<"/", "A", "/", "b", "/">> \in dynamicCanonicalPaths(allRoutes[1])

\* C5: a route bound without a trailing slash answers its canonical path followed
\* by slashes with 301 to the canonical path plus the query string; a route bound
\* with a trailing slash dispatches the slash form and answers the no-slash form
\* with 301 to the slash form; a slash-terminated path that matches no route is
\* not found.
trailingSlashPolicy(P, name, descriptor) ==
    IF ~endsWithSlash(P)
    THEN (last.url # P /\ trimUrl(last.url) = P)
         => (last.outcome.kind = "redirect"
             /\ last.outcome.location = P \o last.querystring)
    ELSE /\ (last.url = P /\ bound(last.method, descriptor))
            => (last.outcome.kind = "handler" /\ last.outcome.name = name)
         /\ last.url = SubSeq(P, 1, Len(P) - 1)
            => (last.outcome.kind = "redirect"
                /\ last.outcome.location = P \o last.querystring)

C5_TrailingSlashPolicy ==
    last.op = "request"
    => /\ \A i \in 1..Len(staticRoutes) :
             trailingSlashPolicy(staticRoutes[i].route, staticRoutes[i].name,
                                 staticRoutes[i].descriptor)
       /\ \A i \in 1..Len(allRoutes) :
             \A P \in dynamicCanonicalPaths(allRoutes[i]) :
                trailingSlashPolicy(P, allRoutes[i].name, allRoutes[i].descriptor)
       /\ (/\ endsWithSlash(last.url)
           /\ staticIndex(staticRoutes, toLowerCase(trimUrl(last.url))) = 0
           /\ \A i \in 1..Len(allRoutes) :
                 ~regexExec(allRoutes[i].pattern, trimUrl(last.url)).ok)
          => last.outcome.kind = "notFound"

\* C5, the failing case: the canonical path of a dynamic route followed by a slash,
\* requested with a method the route does not bind, is answered 405
C5_SlashFormNotAllowed ==
    /\ last.op = "request"
    /\ last.method = "POST"
    /\ last.url = <<"/", "b", "/">>
    /\ last.outcome.kind = "methodNotAllowed"
    /\ last.outcome.name = "ds"
    /\ <<"/", "b">> \in dynamicCanonicalPaths(allRoutes[1])

\* the weights the converters are documented with
specificity(type) ==
    CASE type = "any" -> 200 [] type = "int" -> 150
      [] type = "string" -> 100 [] type = "path" -> 50

\* the first position at which two weight vectors differ, 0 when one is a prefix of
\* the other
firstDifference(v, w) ==
    LET len == IF Len(v) < Len(w) THEN Len(v) ELSE Len(w)
        differ == {i \in 1..len : v[i] # w[i]}
    IN  IF differ = {} THEN 0 ELSE CHOOSE i \in differ : \A j \in differ : i <= j

\* a and b differ first at a converter position, where a's converter is the heavier
moreSpecific(a, b) ==
    LET k == firstDifference(a.weights, b.weights)
    IN  /\ k # 0
        /\ k % 2 = 0
        /\ specificity(a.converters[k \div 2].type) > specificity(b.converters[k \div 2].type)

\* the matcher of route accepts the path of the last request
matcherAccepts(route) == regexExec(route.pattern, trimUrl(last.url)).ok

\* the parameters the matcher of route captured all decode
decodes(route) ==
    decodeParams(route, regexExec(route.pattern, trimUrl(last.url)).caps, 1,
                 [st |-> "ok", properUrl |-> route.literals[1],
                  params |-> EmptyParams]).st # "validation"

\* the routes named n and m are bound, and no other route takes the path of the last
\* request: no static entry has its key and no other matcher accepts it
onlyCandidates(n, m) ==
    /\ last.op = "request"
    /\ n \in DOMAIN urlGenerators /\ m \in DOMAIN urlGenerators
    /\ staticIndex(staticRoutes, toLowerCase(trimUrl(last.url))) = 0
    /\ \A i \in 1..Len(allRoutes) :
          matcherAccepts(allRoutes[i]) => allRoutes[i].name \in {n, m}

\* C6: of two routes of one prefix group that differ first at a converter position,
\* the one with the heavier converter (any 200 > int 150 > string 100 > path 50)
\* stands first in the group, whatever the bind order; when both matchers accept the
\* requested path, the request is never decided by the lighter route unless the
\* heavier one failed to decode; with /{x} and /{n:int} (and /A/{x}/ and
\* /A/{n:int}) bound in either order, a digit path is dispatched to the int route
\* and a letter path to the string route.
C6_SpecificityOrdering ==
    /\ \A g \in 1..Len(dynamicRoutes) :
          \A i, j \in 1..Len(dynamicRoutes[g].routes) :
             LET a == dynamicRoutes[g].routes[i]
                 b == dynamicRoutes[g].routes[j]
             IN  moreSpecific(a, b) =>
                   /\ i < j
                   /\ (/\ last.op = "request"
                       /\ last.outcome.src = "dynamic"
                       /\ a.name # b.name
                       /\ matcherAccepts(a) /\ matcherAccepts(b)
                       /\ decodes(a))
                      => last.outcome.name # b.name
    /\ (last.op = "request" /\ last.method = "GET" /\ onlyCandidates("ds", "di")) =>
          /\ last.url = <<"/", "1">> =>
                /\ handled /\ last.outcome.name = "di"
                /\ last.outcome.params = ("n" :> Num(1))
          /\ last.url \in {<<"/", "b">>, <<"/", "c">>, <<"/", "a", "b">>} =>
                /\ handled /\ last.outcome.name = "ds"
                /\ last.outcome.params = ("x" :> Str(Tail(last.url)))
    /\ (last.op = "request" /\ last.method = "GET" /\ onlyCandidates("dt", "ai")) =>
          /\ last.url = <<"/", "A", "/", "1">> =>
                /\ handled /\ last.outcome.name = "ai"
                /\ last.outcome.params = ("n" :> Num(1))
          /\ last.url = <<"/", "A", "/", "b", "/">> =>
                /\ handled /\ last.outcome.name = "dt"
                /\ last.outcome.params = ("x" :> Str(<<"b">>))

\* C6, its case: the string route and the int route are both bound, both matchers
\* accept /1, and the request is dispatched to the int route
C6_IntRouteProbedFirst ==
    /\ onlyCandidates("ds", "di")
    /\ Len(dynamicRoutes) = 1
    /\ Len(dynamicRoutes[1].routes) = 2
    /\ dynamicRoutes[1].routes[1].name = "di"
    /\ moreSpecific(dynamicRoutes[1].routes[1], dynamicRoutes[1].routes[2])
    /\ last.op = "request"
    /\ last.url = <<"/", "1">>
    /\ matcherAccepts(dynamicRoutes[1].routes[1])
    /\ matcherAccepts(dynamicRoutes[1].routes[2])
    /\ handled
    /\ last.outcome.name = "di"

\* the number a string of decimal digits denotes
RECURSIVE decimalValue(_)
decimalValue(s) ==
    IF s = <<>> THEN 0
    ELSE (CHOOSE d \in 0..9 : DigitChars[d + 1] = Head(s)) * pow10(Len(s) - 1)
         + decimalValue(Tail(s))

\* the int route of the int specification, when it is bound
pnBound == \E i \in 1..Len(allRoutes) : allRoutes[i].name = "pn"
pnConverter == allRoutes[CHOOSE i \in 1..Len(allRoutes) : allRoutes[i].name = "pn"].converters[1]
pxBound == \E i \in 1..Len(allRoutes) : allRoutes[i].name = "px"

\* what follows /p/ in a path
afterPrefix(path) == SubSeq(path, 4, Len(path))

inRange(args, v) ==
    /\ args.hasMin => args.min <= v
    /\ args.hasMax => v <= args.max

\* the request falls through to the string route under /p/, or to not-found
fallsThrough(s) ==
    IF pxBound
    THEN handled /\ last.outcome.name = "px" /\ last.outcome.params = ("x" :> Str(s))
    ELSE last.outcome.kind = "notFound"

\* C7: for a route bound with int({min:a,max:b}) (either bound may be absent), a GET
\* for /p/s with s a digit string is dispatched to the route with n = value(s) if and
\* only if a <= value(s) <= b; otherwise the search goes on, and the request ends as
\* not-found when no other route matches; it never ends as an error or a redirect.
\* A value in range is generated as its plain decimal string (for min 1, max 99:
\* 0 and 100 are rejected, the values of 1..99 accepted).
C7_IntRange ==
    /\ (last.op = "request" /\ pnBound /\ pnConverter.args.fixedDigits = 0) =>
          /\ last.outcome.kind \in {"handler", "notFound"}
          /\ IF inRange(pnConverter.args, decimalValue(afterPrefix(last.url)))
             THEN /\ handled
                  /\ last.outcome.name = "pn"
                  /\ last.outcome.params = ("n" :> Num(decimalValue(afterPrefix(last.url))))
             ELSE fallsThrough(afterPrefix(last.url))
    /\ (/\ generated.name = "pn" /\ pnBound /\ pnConverter.args.fixedDigits = 0
        /\ inRange(pnConverter.args, generated.args[1].n)) =>
          /\ SubSeq(generated.url, 1, 3) = <<"/", "p", "/">>
          /\ isDigits(afterPrefix(generated.url))
          /\ Len(afterPrefix(generated.url)) = 1 \/ afterPrefix(generated.url)[1] # "0"
          /\ decimalValue(afterPrefix(generated.url)) = generated.args[1].n

\* C7, its case: the route with min 1 and max 99 is the only one bound and the
\* request for /p/100 ends as not-found
C7_OutOfRangeNotFound ==
    /\ pnBound
    /\ ~pxBound
    /\ pnConverter.args.hasMin /\ pnConverter.args.min = 1
    /\ pnConverter.args.hasMax /\ pnConverter.args.max = 99
    /\ last.op = "request"
    /\ last.url = <<"/", "p", "/", "1", "0", "0">>
    /\ last.outcome.kind = "notFound"

\* C8: for a route bound with int({fixedDigits:d}), a GET for /p/s with s a digit
\* string is dispatched with n = value(s) exactly when s has d characters, and then
\* encoding n gives s back; a digit string of another length is a validation failure.
\* A value v with 0 <= v < 10^d is generated as exactly d digits denoting v, which
\* decode to v; the client's function returns the URL the server's does, for every v.
C8_IntFixedDigits ==
    /\ (last.op = "request" /\ pnBound /\ pnConverter.args.fixedDigits # 0) =>
          IF Len(afterPrefix(last.url)) = pnConverter.args.fixedDigits
          THEN /\ handled
               /\ last.outcome.name = "pn"
               /\ last.outcome.params = ("n" :> Num(decimalValue(afterPrefix(last.url))))
               /\ toUrl(pnConverter, last.outcome.params["n"]) = afterPrefix(last.url)
          ELSE fallsThrough(afterPrefix(last.url))
    /\ (generated.name = "pn" /\ pnBound /\ pnConverter.args.fixedDigits # 0) =>
          /\ generated.clientUrl = generated.url
          /\ SubSeq(generated.url, 1, 3) = <<"/", "p", "/">>
          /\ generated.args[1].n < pow10(pnConverter.args.fixedDigits) =>
                /\ Len(afterPrefix(generated.url)) = pnConverter.args.fixedDigits
                /\ isDigits(afterPrefix(generated.url))
                /\ decimalValue(afterPrefix(generated.url)) = generated.args[1].n
                /\ fromUrl(pnConverter, afterPrefix(generated.url)) = Ok(generated.args[1])

\* C8, its case: with fixedDigits 3 the value 5 is generated as /p/005 by the server
\* and by the client
C8_PaddedOnBothSides ==
    /\ pnBound
    /\ pnConverter.args.fixedDigits = 3
    /\ generated.name = "pn"
    /\ generated.args = <<Num(5)>>
    /\ generated.url = <<"/", "p", "/", "0", "0", "5">>
    /\ generated.clientUrl = <<"/", "p", "/", "0", "0", "5">>

\* the position of the "}" that closes a literal opened before position i, inLiteral
\* being the number of "{" open there; 0 when there is none
RECURSIVE literalEnd(_, _, _)
literalEnd(s, i, inLiteral) ==
    IF i > Len(s) THEN 0
    ELSE IF s[i] = "}" /\ inLiteral = 1 THEN i
    ELSE literalEnd(s, i + 1, IF s[i] = "{" THEN inLiteral + 1
                              ELSE IF s[i] = "}" THEN inLiteral - 1 ELSE inLiteral)

\* the position of the "]" that closes a bracket opened before position i, depth
\* being the number of "[" open there; 0 when there is none
RECURSIVE bracketEnd(_, _, _)
bracketEnd(s, i, depth) ==
    IF i > Len(s) THEN 0
    ELSE IF s[i] = "{"
    THEN (IF literalEnd(s, i + 1, 1) = 0 THEN 0
          ELSE bracketEnd(s, literalEnd(s, i + 1, 1) + 1, depth))
    ELSE IF s[i] = "]" /\ depth = 1 THEN i
    ELSE bracketEnd(s, i + 1, IF s[i] = "[" THEN depth + 1
                              ELSE IF s[i] = "]" THEN depth - 1 ELSE depth)

\* the brackets outside literals are balanced, and so are the braces
RECURSIVE wellBracketed(_)
wellBracketed(s) ==
    IF s = <<>> THEN TRUE
    ELSE IF Head(s) = "{"
    THEN /\ literalEnd(s, 2, 1) # 0
         /\ wellBracketed(SubSeq(s, literalEnd(s, 2, 1) + 1, Len(s)))
    ELSE IF Head(s) = "["
    THEN /\ bracketEnd(s, 2, 1) # 0
         /\ wellBracketed(SubSeq(s, 2, bracketEnd(s, 2, 1) - 1))
         /\ wellBracketed(SubSeq(s, bracketEnd(s, 2, 1) + 1, Len(s)))
    ELSE Head(s) \notin {"]", "}"} /\ wellBracketed(Tail(s))

\* the strings got from a well-bracketed route by keeping or omitting each bracketed
\* segment, an inner one only where the enclosing one is kept; a literal {...} is
\* copied
RECURSIVE keepOrOmit(_)
keepOrOmit(s) ==
    IF s = <<>> THEN {<<>>}
    ELSE IF Head(s) = "{"
    THEN {SubSeq(s, 1, literalEnd(s, 2, 1)) \o rest :
             rest \in keepOrOmit(SubSeq(s, literalEnd(s, 2, 1) + 1, Len(s)))}
    ELSE IF Head(s) = "["
    THEN {segment \o rest :
             segment \in {<<>>} \cup keepOrOmit(SubSeq(s, 2, bracketEnd(s, 2, 1) - 1)),
             rest \in keepOrOmit(SubSeq(s, bracketEnd(s, 2, 1) + 1, Len(s)))}
    ELSE {<<Head(s)>> \o rest : rest \in keepOrOmit(Tail(s))}

elementsOf(array) == {array[i] : i \in 1..Len(array)}

\* C9: for route strings with balanced brackets, parseOptionalRoutes returns exactly
\* the strings obtained by keeping or omitting each bracketed segment (an inner
\* segment only where its enclosing segment is kept), brackets inside {...} being
\* copied; the results of several routes are concatenated and each string is kept
\* once, where it occurs first.
C9_OptionalSegmentExpansion ==
    (last.op = "expand" /\ \A i \in 1..Len(last.routes) : wellBracketed(last.routes[i])) =>
       /\ ~last.result.err
       /\ elementsOf(last.result.res)
            = UNION {keepOrOmit(last.routes[i]) : i \in 1..Len(last.routes)}
       /\ \A i, j \in 1..Len(last.result.res) :
             last.result.res[i] = last.result.res[j] => i = j
       /\ \A i, j \in 1..Len(last.routes) :
             \A x \in keepOrOmit(last.routes[i]) \ UNION {keepOrOmit(last.routes[k]) : k \in 1..(i - 1)},
                y \in keepOrOmit(last.routes[j]) \ UNION {keepOrOmit(last.routes[k]) : k \in 1..(j - 1)} :
                i < j =>
                   \A m, n \in 1..Len(last.result.res) :
                      (last.result.res[m] = x /\ last.result.res[n] = y) => m < n

\* the route holds text between the end of an inner bracket and the end of the bracket
\* around it
RECURSIVE textAfterInner(_, _, _, _)
textAfterInner(s, i, depth, closed) ==
    IF i > Len(s) THEN FALSE
    ELSE IF s[i] = "[" THEN textAfterInner(s, i + 1, depth + 1, FALSE)
    ELSE IF s[i] = "]" THEN textAfterInner(s, i + 1, depth - 1, depth > 1)
    ELSE (closed /\ depth >= 1) \/ textAfterInner(s, i + 1, depth, closed)

\* C9, the failing case: text after an inner bracket is appended to the strings that
\* omit the inner segment's enclosing half only: /d[/a[/b]/c] gives /d/a and /d/c
C9_TextAfterInnerBracket ==
    /\ last.op = "expand"
    /\ last.routes = << <<"/", "d", "[", "/", "a", "[", "/", "b", "]", "/", "c", "]">> >>
    /\ wellBracketed(last.routes[1])
    /\ textAfterInner(last.routes[1], 1, 0, FALSE)
    /\ last.result.res = << <<"/", "d">>, <<"/", "d", "/", "a">>, <<"/", "d", "/", "c">>,
                            <<"/", "d", "/", "a", "/", "b", "/", "c">> >>
    /\ keepOrOmit(last.routes[1])
         = {<<"/", "d">>, <<"/", "d", "/", "a", "/", "c">>,
            <<"/", "d", "/", "a", "/", "b", "/", "c">>}

\* the static entries and the dynamic routes a name is bound to
staticsNamed(n) == SelectSeq(staticRoutes, LAMBDA e : e.name = n)
dynamicsNamed(n) == SelectSeq(allRoutes, LAMBDA r : r.name = n)

\* a name with a static and a dynamic alternative, and a URL generated for it
generatedForBoth ==
    /\ generated # NoneGenerated
    /\ staticsNamed(generated.name) # <<>>
    /\ dynamicsNamed(generated.name) # <<>>

\* the URL of the dynamic alternative bound first: /a/{n:int(...)} of "pg",
\* /p/{x} of "mp"
firstDynamicUrl(n, args) ==
    CASE n = "pg" -> <<"/", "a", "/">> \o numToString(floorOrZero(args[1]))
      [] n = "mp" -> <<"/", "p", "/">> \o encodeURIComponent(toStr(args[1]))

\* the arguments are values the first dynamic alternative decodes to
routableArgs(n, args) ==
    \/ args = <<>>
    \/ n = "pg" /\ args[1].t = "num" /\ 1 <= args[1].n /\ args[1].n <= 99
    \/ n = "mp" /\ accepts(StringConverter(NoArgs), args[1])

\* url[name]: no arguments give the static path bound first, arguments the URL of
\* the dynamic alternative bound first
serverDispatchesOnArity ==
    IF generated.args = <<>>
    THEN generated.url = staticsNamed(generated.name)[1].route
    ELSE generated.url = firstDynamicUrl(generated.name, generated.args)

\* the client's function of the same name
clientDispatchesOnArity ==
    IF generated.args = <<>>
    THEN generated.clientUrl = staticsNamed(generated.name)[1].route
    ELSE generated.clientUrl = firstDynamicUrl(generated.name, generated.args)

\* every alternative of the name carries one descriptor, and the generated URL is
\* dispatched to it
routableToOneDescriptor ==
    /\ \A i \in 1..Len(dynamicsNamed(generated.name)) :
          dynamicsNamed(generated.name)[i].descriptor
             = staticsNamed(generated.name)[1].descriptor
    /\ \A i \in 1..Len(staticsNamed(generated.name)) :
          staticsNamed(generated.name)[i].descriptor
             = staticsNamed(generated.name)[1].descriptor
    /\ (/\ last.op = "request" /\ last.method = "GET"
        /\ routableArgs(generated.name, generated.args)) =>
          /\ handled
          /\ last.outcome.name = generated.name
          /\ last.outcome.descriptor = staticsNamed(generated.name)[1].descriptor
          /\ last.outcome.src = IF generated.args = <<>> THEN "static" ELSE "dynamic"

\* C10: when one bind gives a name a static and a dynamic alternative, url[name]()
\* returns the static path bound first and url[name](args...) the URL of the dynamic
\* alternative bound first; both are dispatched to one descriptor; and the client's
\* function of that name returns the same.
C10_GeneratorArityDispatch ==
    generatedForBoth =>
       /\ serverDispatchesOnArity
       /\ routableToOneDescriptor
       /\ clientDispatchesOnArity

\* C10, the failing case: /p[/{x}[/{y}]] is bound as "mp"; url.mp('a') is /p/a, the
\* client's url.mp('a') is /p/a/undefined
C10_ClientTakesLongerAlternative ==
    /\ generatedForBoth
    /\ generated.name = "mp"
    /\ generated.args = <<Str(<<"a">>)>>
    /\ generated.url = <<"/", "p", "/", "a">>
    /\ generated.clientUrl = <<"/", "p", "/", "a", "/", "u", "n", "d", "e", "f", "i", "n", "e", "d">>

\* the bind calls (by the id their descriptors carry) that have registered a static
\* entry or a dynamic route under the name n
registeredBy(n) ==
    {staticRoutes[i].descriptor.id : i \in {j \in 1..Len(staticRoutes) : staticRoutes[j].name = n}}
    \cup {allRoutes[i].descriptor.id : i \in {j \in 1..Len(allRoutes) : allRoutes[j].name = n}}

routeNames ==
    {staticRoutes[i].name : i \in 1..Len(staticRoutes)}
    \cup {allRoutes[i].name : i \in 1..Len(allRoutes)}

\* C11: after every bind call, thrown or not, the static entries and dynamic routes
\* that carry one name were all registered by one single bind call; and a bind whose
\* name already has a URL generator throws 'Already defined route named' and leaves
\* the tables as they were.
C11_UniqueRouteNames ==
    [][/\ \A n \in routeNames' : Cardinality(registeredBy(n)') <= 1
       /\ (last'.op = "bind" /\ last'.name \in DOMAIN urlGenerators)
             => (last'.err = "Already defined route named" /\ tables' = tables)]_vars

\* a name under which two bind calls have registered routes
C11_NameSharedByTwoCalls ==
    \E n \in routeNames : Cardinality(registeredBy(n)) = 2

\* the second half of C11 alone: a name that has a generator is refused
C11_GeneratedNameRefused ==
    [][(last'.op = "bind" /\ last'.name \in DOMAIN urlGenerators)
          => (last'.err = "Already defined route named" /\ tables' = tables)]_vars

\* the first concrete route of a bind call: prefixed and expanded
firstRoute(call) == call.prefix \o parseOptionalRoutes(call.routes).res[1]

\* the pattern bind compiles for a route with parameters
compiled(route) ==
    bindDynamic([staticRoutes |-> <<>>, dynamicRoutes |-> <<>>,
                 staticGenerator |-> NoStaticGenerator,
                 dynamicGenerator |-> NoDynamicGenerator, err |-> ""],
                splitRoute(route), "", NoDescriptor).dynamicRoutes[1].routes[1].pattern

isStaticRoute(route) == Len(splitRoute(route).literals) = 1

\* a call that gets as far as registering its first route
reachesFirstRoute(call) ==
    /\ call.prefix # <<>> => validatePath(call.prefix) = ""
    /\ ~parseOptionalRoutes(call.routes).err
    /\ validatePath(firstRoute(call)) = ""
    /\ call.name # "" /\ call.name \notin DOMAIN urlGenerators

staticDuplicate(call) ==
    /\ isStaticRoute(firstRoute(call))
    /\ \E i \in 1..Len(staticRoutes) :
          toLowerCase(staticRoutes[i].route) = toLowerCase(encodeUnicodePath(firstRoute(call)))

dynamicDuplicate(call) ==
    /\ ~isStaticRoute(firstRoute(call))
    /\ \E i \in 1..Len(allRoutes) : allRoutes[i].pattern = compiled(firstRoute(call))

\* C12: a bind of a static path that equals, case-insensitively, a registered static
\* canonical path throws 'Already defined route at'; a bind of a dynamic route whose
\* compiled pattern is that of a registered route throws 'Already defined route
\* matching'; neither registers anything.  So no two static entries have the same
\* lower-cased path and no group holds two routes with the same pattern.
C12_DuplicatesRejected ==
    [][/\ \A i, j \in 1..Len(staticRoutes') :
             i # j => toLowerCase(staticRoutes'[i].route) # toLowerCase(staticRoutes'[j].route)
       /\ \A g \in 1..Len(dynamicRoutes') :
             \A i, j \in 1..Len(dynamicRoutes'[g].routes) :
                i # j => dynamicRoutes'[g].routes[i].pattern # dynamicRoutes'[g].routes[j].pattern
       /\ (last'.op = "bind" /\ reachesFirstRoute(last'.call) /\ staticDuplicate(last'.call))
             => (last'.err = "Already defined route at" /\ tables' = tables)
       /\ (last'.op = "bind" /\ reachesFirstRoute(last'.call) /\ dynamicDuplicate(last'.call))
             => (last'.err = "Already defined route matching" /\ tables' = tables)]_vars

\* '/E' was refused while '/e' is registered, written in the other case
C12_CaseVariantRefused ==
    /\ last.op = "bind"
    /\ last.err = "Already defined route at"
    /\ firstRoute(last.call) = <<"/", "E">>
    /\ \E i \in 1..Len(staticRoutes) : staticRoutes[i].route = <<"/", "e">>
    /\ \A i \in 1..Len(staticRoutes) : staticRoutes[i].route # <<"/", "E">>

\* the concrete routes of a bind call: expanded, each prefixed
concreteRoutes(call) ==
    {call.prefix \o parseOptionalRoutes(call.routes).res[i] :
        i \in 1..Len(parseOptionalRoutes(call.routes).res)}

illFormed(path) ==
    \/ path = <<>> \/ path[1] # "/"
    \/ \E i \in 1..(Len(path) - 1) : path[i] = "/" /\ path[i + 1] = "/"
    \/ \E i \in 1..Len(path) : path[i] = "?"

\* a call of one well-formed route that ends in a slash, with a fresh name, whose
\* path or pattern nothing registered has taken
freshSlashRoute(call) ==
    /\ reachesFirstRoute(call)
    /\ concreteRoutes(call) = {firstRoute(call)}
    /\ endsWithSlash(firstRoute(call))
    /\ isStaticRoute(firstRoute(call)) =>
          staticIndex(staticRoutes,
                      trimEndingSlashes(toLowerCase(encodeUnicodePath(firstRoute(call))))) = 0
    /\ ~dynamicDuplicate(call)

\* the route a call has registered keeps the ending slash it was written with
keepsSlash(call, entries, routes) ==
    IF isStaticRoute(firstRoute(call))
    THEN \E i \in 1..Len(entries) :
            /\ entries[i].name = call.name
            /\ entries[i].route = encodeUnicodePath(firstRoute(call))
    ELSE \E i \in 1..Len(routes) :
            /\ routes[i].name = call.name
            /\ routes[i].pattern = compiled(firstRoute(call))
            /\ routes[i].hasEndingSlash

decodedBy(route) ==
    decodeParams(route, regexExec(route.pattern, trimUrl(last.url)).caps, 1,
                 [st |-> "ok", properUrl |-> route.literals[1], params |-> EmptyParams])

\* the path of the last request is the canonical path of the dynamic route
canonicalFor(route) ==
    /\ matcherAccepts(route)
    /\ decodedBy(route).st = "ok"
    /\ last.url = decodedBy(route).properUrl
                  \o (IF route.hasEndingSlash THEN <<"/">> ELSE <<>>)

\* the dynamic routes, in table order, whose matcher accepts the path of the last
\* request and whose parameters raise no validation failure
decodingRoutes ==
    {i \in 1..Len(allRoutes) : matcherAccepts(allRoutes[i]) /\ decodes(allRoutes[i])}

\* the path of the last request belongs to a static entry
staticOwner == staticIndex(staticRoutes, toLowerCase(trimUrl(last.url)))

\* the descriptors (none or one) of the route whose canonical path the last request
\* asks for: the static entry of the path, else the first decoding route
owners ==
    IF staticOwner # 0
    THEN {staticRoutes[i].descriptor :
             i \in {j \in {staticOwner} : staticRoutes[j].route = last.url}}
    ELSE {allRoutes[i].descriptor :
             i \in {j \in decodingRoutes : /\ \A k \in decodingRoutes : j <= k
                                       /\ canonicalFor(allRoutes[j])}}

called(who) == \E i \in 1..Len(last.calls) : last.calls[i].who = who

\* C14: a request for the canonical path of a route whose descriptor has no handler
\* for the lower-cased method calls the method-not-allowed handler first (the default
\* one answers a bare 405) and calls no route handler and no not-found handler; a
\* request for the canonical path of a route that binds the method never calls the
\* method-not-allowed handler.
C14_MethodNotAllowed ==
    (last.op = "request") =>
        \A d \in owners :
            IF lowerMethod(last.method) \notin d.methods
            THEN /\ last.calls # <<>>
                 /\ last.calls[1] =
                       Invoke("methodNotAllowedHandler", Collaborator,
                              IF methodNotAllowedHandler = "default" THEN 405 ELSE 0, <<>>)
                 /\ ~called("callback") /\ ~called("options") /\ ~called("notFoundHandler")
            ELSE ~called("methodNotAllowedHandler")

\* POST /p/100 with '/p/{n:int({min:1,max:99})}' bound for GET and '/p/{x}' for GET
\* and POST: the path is the string route's, which binds POST, and the
\* method-not-allowed handler was called
C14_BoundMethodNotAllowed ==
    /\ last.op = "request"
    /\ last.method = "POST"
    /\ last.url = <<"/", "p", "/", "1", "0", "0">>
    /\ \E d \in owners : d.id = 43 /\ "post" \in d.methods
    /\ called("methodNotAllowedHandler")

\* the first half of C14: the canonical path of a route that lacks the method
C14_UnboundMethodRefused ==
    (last.op = "request") =>
        \A d \in owners :
            lowerMethod(last.method) \notin d.methods
               => /\ last.calls # <<>>
                  /\ last.calls[1].who = "methodNotAllowedHandler"
                  /\ ~called("callback") /\ ~called("options") /\ ~called("notFoundHandler")

\* the path of the last request matches no static entry and no dynamic route: no
\* matcher accepts it, or every route whose matcher accepts it fails validation
matchesNoRoute == staticOwner = 0 /\ decodingRoutes = {}

\* C15: a request whose path matches no static entry and no dynamic route calls the
\* configured not-found handler with (request, response, next), or next with no
\* argument when none is configured; no route handler is called, no redirect and no
\* method-not-allowed answer is produced, and neither cache receives an entry.
C15_NotFound ==
    (last.op = "request" /\ matchesNoRoute) =>
        /\ last.calls # <<>>
        /\ last.calls[1] = IF notFoundHandler = "null" THEN callNext(<<>>, last.standalone)
                           ELSE Invoke("notFoundHandler", Collaborator, 0, <<>>)
        /\ ~called("callback") /\ ~called("options")
        /\ ~called("movedPermanently") /\ ~called("methodNotAllowedHandler")
        /\ dynamicRouteCache = <<>> /\ redirectCache = <<>>

\* POST /p/100 when the only route whose matcher accepts it, the int route of 1..99
\* bound for GET, fails validation: the method-not-allowed handler was called
C15_UnmatchedPathNotAllowed ==
    /\ last.op = "request"
    /\ matchesNoRoute
    /\ last.method = "POST"
    /\ last.url = <<"/", "p", "/", "1", "0", "0">>
    /\ \E i \in 1..Len(allRoutes) : matcherAccepts(allRoutes[i]) /\ ~decodes(allRoutes[i])
    /\ called("methodNotAllowedHandler")

\* the not-found step when every route whose matcher accepts the path fails
\* validation and binds the request method
C15_UnmatchedByEveryMatcher ==
    (/\ last.op = "request"
     /\ staticOwner = 0
     /\ \A i \in 1..Len(allRoutes) :
           matcherAccepts(allRoutes[i]) =>
              (~decodes(allRoutes[i]) /\ bound(last.method, allRoutes[i].descriptor))) =>
        /\ last.calls # <<>>
        /\ last.calls[1] = IF notFoundHandler = "null" THEN callNext(<<>>, last.standalone)
                           ELSE Invoke("notFoundHandler", Collaborator, 0, <<>>)
        /\ ~called("callback") /\ ~called("options")
        /\ ~called("movedPermanently") /\ ~called("methodNotAllowedHandler")
        /\ dynamicRouteCache = <<>> /\ redirectCache = <<>>

threwSynchronously ==
    \/ last.outcome.kind = "error"
    \/ called("callback") /\ last.does = "throw"
    \/ called("notFoundHandler") /\ notFoundHandler = "throw"
    \/ called("methodNotAllowedHandler") /\ methodNotAllowedHandler = "throw"

\* C17: whatever throws synchronously while the router processes a request, the last
\* call of the router is next(err); the default next of the standalone router answers
\* it with 500.
C17_FaultsForwarded ==
    (last.op = "request" /\ threwSynchronously) =>
        /\ last.calls # <<>>
        /\ last.calls[Len(last.calls)].who = "next"
        /\ last.calls[Len(last.calls)].args = <<"err">>
        /\ last.standalone => last.calls[Len(last.calls)].status = 500

\* GET /p/% on the standalone router: decodeURIComponent threw in the string
\* converter and the default next answered 500
C17_ConverterFaultAnswered500 ==
    /\ last.op = "request"
    /\ last.url = <<"/", "p", "/", "%">>
    /\ last.outcome.kind = "error"
    /\ last.standalone
    /\ last.calls = <<Invoke("next", <<"err">>, 500, <<>>)>>

\* the descriptors stored in the two tables
storedDescriptors ==
    {staticRoutes[i].descriptor : i \in 1..Len(staticRoutes)}
    \cup {allRoutes[i].descriptor : i \in 1..Len(allRoutes)}

\* the position of a method in the fixed list of methods
methodRank(method) ==
    CHOOSE i \in 1..Len(ACCEPTABLE_METHODS) : ACCEPTABLE_METHODS[i] = method

\* list names exactly the methods of set, each once, in the order of the fixed list
listsInOrder(list, set) ==
    /\ {list[i] : i \in 1..Len(list)} = set
    /\ \A i, j \in 1..Len(list) : i < j => methodRank(list[i]) < methodRank(list[j])

\* text is the elements of list in upper case with a comma between neighbours
commaJoinedUpper(text, list) ==
    /\ Len(text) = (IF list = <<>> THEN 0 ELSE 2 * Len(list) - 1)
    /\ \A i \in 1..Len(text) :
          text[i] = IF i % 2 = 1 THEN upperMethod(list[(i + 1) \div 2]) ELSE ","

\* C18: every stored descriptor has an options handler; one that was synthesized
\* lists exactly the methods the caller bound, without OPTIONS, in the order of the
\* fixed method list, and answers 200 with these names, upper-cased and joined by
\* commas, as Allow header and body; an OPTIONS request for the canonical path of a
\* route never calls the method-not-allowed handler.
C18_OptionsSynthesis ==
    /\ \A d \in storedDescriptors :
          /\ "options" \in d.methods
          /\ d.synthesized => listsInOrder(d.allow, d.methods \ {"options"})
    /\ (last.op = "request" /\ last.method = "OPTIONS") =>
          /\ owners # {} => ~called("methodNotAllowedHandler")
          /\ (last.outcome.kind = "handler" /\ last.outcome.descriptor.synthesized) =>
                /\ Len(last.calls) = 1
                /\ last.calls[1].who = "options"
                /\ last.calls[1].status = 200
                /\ commaJoinedUpper(last.calls[1].body,
                                    last.outcome.descriptor.allow)
                /\ listsInOrder(last.outcome.descriptor.allow,
                                last.outcome.descriptor.methods \ {"options"})

\* OPTIONS /t/ on the route bound with {put, post}: 200 with Allow 'POST,PUT'
C18_AllowPostPut ==
    /\ last.op = "request"
    /\ last.method = "OPTIONS"
    /\ last.url = <<"/", "t", "/">>
    /\ last.calls = <<Invoke("options", <<"request", "response", "params", "next">>,
                             200, <<"POST", ",", "PUT">>)>>

hasQuestionMark(text) == \E i \in 1..Len(text) : text[i] = "?"

\* what the router answers, on the tables and caches of this state, to a request
\* for the bare path
withoutQuery(method, path) == router(serving, method, path, now)

\* C19: the query string, from the first '?' on, takes no part in the matching and
\* is in no cache key: a request is resolved, and leaves the caches, as the request
\* for its bare path would; the Location of a 301, from the tables or from the
\* redirect cache, is the Location for the bare path followed by the query string of
\* this request; a request that follows a redirected one for the same path gets that
\* redirect's path with its own query string.
C19_QueryString ==
    [][(requests' = requests + 1) =>
          /\ ~hasQuestionMark(last'.url)
          /\ last'.outcome.kind = withoutQuery(last'.method, last'.url).outcome.kind
          /\ last'.outcome.descriptor
                = withoutQuery(last'.method, last'.url).outcome.descriptor
          /\ last'.outcome.params = withoutQuery(last'.method, last'.url).outcome.params
          /\ redirectCache' = withoutQuery(last'.method, last'.url).redirectCache
          /\ dynamicRouteCache' = withoutQuery(last'.method, last'.url).dynamicRouteCache
          /\ \A k \in DOMAIN redirectCache' :
                ~hasQuestionMark(k) /\ ~hasQuestionMark(redirectCache'[k])
          /\ \A k \in DOMAIN dynamicRouteCache' : ~hasQuestionMark(k)
          /\ (last'.outcome.kind = "redirect") =>
                /\ ~hasQuestionMark(withoutQuery(last'.method, last'.url).outcome.location)
                /\ last'.outcome.location
                      = withoutQuery(last'.method, last'.url).outcome.location
                        \o last'.querystring
          /\ (/\ last.op = "request" /\ last.outcome.kind = "redirect"
              /\ last.url = last'.url
              /\ last'.outcome.src = "redirectCache") =>
                last'.outcome.location = pathOf(last.outcome.location) \o last'.querystring]_vars

\* GET /b?u answered from the redirect cache with Location '/B/?u'
C19_CachedRedirectCarriesQuery ==
    /\ last.op = "request"
    /\ last.url = <<"/", "b">>
    /\ last.querystring = <<"?", "u">>
    /\ last.outcome.kind = "redirect"
    /\ last.outcome.src = "redirectCache"
    /\ last.outcome.location = <<"/", "B", "/", "?", "u">>

\* C20: for every table, every route name and every argument list, the function of
\* that name in escortClient.generateUrlObject(router.serialize()) returns the URL
\* router.url[name] returns.
C20_ClientServerEquivalence ==
    (generated # NoneGenerated) => generated.clientUrl = generated.url

\* 'mp' is bound as /p[/{x}[/{y}]]: with one argument the server fills /p/{x} and
\* the client /p/{x}/{y}
C20_ClientFillsOtherAlternative ==
    /\ generated # NoneGenerated
    /\ generated.name = "mp"
    /\ generated.args = <<Str(<<"b">>)>>
    /\ Len(dynamicsNamed("mp")) = 2
    /\ generated.url = <<"/", "p", "/", "b">>
    /\ generated.clientUrl # generated.url

\* client and server agree for every name that has one dynamic alternative at most
C20_EquivalentForOneDynamicAlternative ==
    (generated # NoneGenerated /\ Len(dynamicsNamed(generated.name)) <= 1)
       => generated.clientUrl = generated.url

\* the prefix groups without one route
withoutRoute(groups, route) ==
    [g \in 1..Len(groups) |->
        [groups[g] EXCEPT !.routes = SelectSeq(@, LAMBDA r : r # route)]]

\* the tables with both caches empty, as the first request finds them
onEmptyCaches ==
    [serving EXCEPT !.dynamicRouteCache = <<>>, !.redirectCache = <<>>,
                    !.cacheExpirationTime = 0]

\* what the router answers to the last request, on the caches c, when route is not
\* in the table
resolvedWithout(c, route) ==
    router([c EXCEPT !.dynamicRoutes = withoutRoute(@, route)],
           last.method, last.url \o last.querystring, now)

\* the dynamic routes whose matcher accepts the path of the last request and one of
\* whose parameters raises a validation failure
failingCandidates ==
    {i \in 1..Len(allRoutes) : matcherAccepts(allRoutes[i]) /\ ~decodes(allRoutes[i])}

\* the last request, made on empty caches, has the outcome and leaves the caches it
\* would if route were not in the table
asIfAbsent(route) ==
    /\ last.outcome = resolvedWithout(onEmptyCaches, route).outcome
    /\ redirectCache = resolvedWithout(onEmptyCaches, route).redirectCache
    /\ dynamicRouteCache = resolvedWithout(onEmptyCaches, route).dynamicRouteCache

\* C21: a dynamic route whose matcher accepts the path and one of whose parameters
\* raises a validation failure contributes nothing: the request has the outcome, and
\* leaves the caches, it would have if that route were not in the table, whatever
\* the request method.
C21_NotCommittedBeforeDecoding ==
    (last.op = "request") =>
        \A i \in failingCandidates : asIfAbsent(allRoutes[i])

\* the int route of 1..99, bound for GET, answered POST /p/100 with
\* method-not-allowed although 100 fails its validation
C21_FailingCandidateAnswered ==
    /\ last.op = "request"
    /\ last.method = "POST"
    /\ last.outcome.kind = "methodNotAllowed"
    /\ last.outcome.name = "pr"
    /\ \E i \in failingCandidates : allRoutes[i].name = "pr"

\* C21 for the methods the failing candidate binds
C21_BoundMethodFallsThrough ==
    (last.op = "request") =>
        \A i \in failingCandidates :
            bound(last.method, allRoutes[i].descriptor) => asIfAbsent(allRoutes[i])

\* the path the router reassembles from route and the captures of the last request
properUrlOf(route) ==
    decodedBy(route).properUrl \o (IF route.hasEndingSlash THEN <<"/">> ELSE <<>>)

\* the dynamic route the path of the last request belongs to, when no static entry
\* has it: the first in table order that accepts it and raises no validation failure
firstDecoding ==
    {i \in decodingRoutes : \A k \in decodingRoutes : i <= k}

\* the last request was answered 301 to path and the redirect was recorded
redirectedTo(path) ==
    /\ last.outcome.kind = "redirect"
    /\ last.outcome.location = path \o last.querystring
    /\ last.url \in DOMAIN redirectCache
    /\ redirectCache[last.url] = path

\* C22: a request whose path matches a route, static or dynamic, but is not that
\* route's canonical path is answered 301 to the canonical path, and the redirect is
\* recorded, whatever the request method; the method-not-allowed handler is called
\* only for a path that is the canonical path of its route.
C22_CanonicalizationBeforeMethod ==
    (last.op = "request") =>
        /\ (staticOwner # 0 /\ staticRoutes[staticOwner].route # last.url)
              => redirectedTo(staticRoutes[staticOwner].route)
        /\ staticOwner = 0 =>
              \A i \in firstDecoding :
                 (decodedBy(allRoutes[i]).st = "ok" /\ ~canonicalFor(allRoutes[i]))
                    => redirectedTo(properUrlOf(allRoutes[i]))
        /\ (last.outcome.kind = "methodNotAllowed") =>
              IF staticOwner # 0 THEN staticRoutes[staticOwner].route = last.url
              ELSE \E i \in firstDecoding : canonicalFor(allRoutes[i])

\* POST /b/ with '/{x}' bound for GET, the only route whose matcher accepts it: the
\* path is not canonical ('/b' is) and the answer is method-not-allowed, no redirect
C22_NonCanonicalNotAllowed ==
    /\ last.op = "request"
    /\ last.method = "POST"
    /\ last.url = <<"/", "b", "/">>
    /\ staticOwner = 0
    /\ failingCandidates = {}
    /\ \E i \in firstDecoding :
          /\ allRoutes[i].name = "ds"
          /\ properUrlOf(allRoutes[i]) = <<"/", "b">>
    /\ last.outcome.kind = "methodNotAllowed"
    /\ redirectCache = <<>>

\* C22 for the static branch alone
C22_StaticCanonicalizedFirst ==
    (last.op = "request") =>
        /\ (staticOwner # 0 /\ staticRoutes[staticOwner].route # last.url)
              => redirectedTo(staticRoutes[staticOwner].route)
        /\ (last.outcome.kind = "methodNotAllowed" /\ staticOwner # 0)
              => staticRoutes[staticOwner].route = last.url

\* what a request is answered with: the handler of a descriptor with parameters, a
\* redirect target, method-not-allowed, not-found or an error
answerOf(outcome) ==
    [kind |-> outcome.kind,
     descriptor |-> IF outcome.kind = "handler" THEN outcome.descriptor ELSE NoDescriptor,
     params |-> IF outcome.kind = "handler" THEN outcome.params ELSE EmptyParams,
     location |-> outcome.location]

\* what the router answers to the last request when both caches are empty
onEmptyCachesAnswer ==
    answerOf(router(onEmptyCaches, last.method, last.url \o last.querystring, now).outcome)

\* C23: whatever the caches hold after any earlier requests, a request is answered as
\* it is with both caches empty: the same handler with the same parameters, the same
\* redirect target, method-not-allowed or not-found.
C23_CacheTransparency ==
    (last.op = "request") => answerOf(last.outcome) = onEmptyCachesAnswer

\* POST /A/b after GET /A/b with '/A/{x}/' bound for GET: answered 301 from the
\* redirect cache, and method-not-allowed when the caches are empty
C23_CachedRedirectHidesNotAllowed ==
    /\ last.op = "request"
    /\ last.method = "POST"
    /\ last.url = <<"/", "A", "/", "b">>
    /\ last.outcome.kind = "redirect"
    /\ last.outcome.src = "redirectCache"
    /\ onEmptyCachesAnswer.kind = "methodNotAllowed"

\* C23 for the answers taken from the match cache
C23_MatchCacheTransparent ==
    (last.op = "request" /\ last.outcome.src = "cache")
        => answerOf(last.outcome) = onEmptyCachesAnswer

cachedPaths == DOMAIN redirectCache \cup DOMAIN dynamicRouteCache

fromCache(outcome) == outcome.src \in {"cache", "redirectCache"}

\* a request that arrives after the expiration time: both caches are emptied before
\* any lookup, so the request is not answered from them and they hold at most what
\* it recorded itself, and the expiration time is the request's time + 60000
resetsBoth ==
    /\ cacheExpirationTime' = now + CACHE_CLEAR_TIME
    /\ ~fromCache(last'.outcome)
    /\ DOMAIN redirectCache' \cup DOMAIN dynamicRouteCache' \subseteq {last'.url}
    /\ \A path \in DOMAIN recordedAt' : recordedAt'[path] = now

\* a request that arrives no later than the expiration time keeps both caches
keepsBoth ==
    /\ cacheExpirationTime' = cacheExpirationTime
    /\ \A path \in DOMAIN redirectCache :
          path \in DOMAIN redirectCache' /\ redirectCache'[path] = redirectCache[path]
    /\ \A path \in DOMAIN dynamicRouteCache :
          /\ path \in DOMAIN dynamicRouteCache'
          /\ dynamicRouteCache'[path] = dynamicRouteCache[path]

\* C24: the caches are emptied together, at the start of the first request after the
\* expiration time and before the redirect cache is looked up, the expiration time
\* becoming that request's time + 60000; no request is answered from an entry
\* recorded more than 60000 ms before it.
C24_CacheTTL ==
    [][(requests' = requests + 1) =>
         /\ IF cacheExpirationTime < now THEN resetsBoth ELSE keepsBoth
         /\ fromCache(last'.outcome) =>
               /\ last'.url \in DOMAIN recordedAt
               /\ now - recordedAt[last'.url] <= CACHE_CLEAR_TIME]_vars

\* a request answered from the redirect cache by an entry exactly 60000 ms old
C24_AnsweredAtExpiration ==
    /\ last.op = "request"
    /\ last.outcome.src = "redirectCache"
    /\ last.url \in DOMAIN recordedAt
    /\ now - recordedAt[last.url] = CACHE_CLEAR_TIME
    /\ cacheExpirationTime = now

\* the second request arrives 60001 ms after the entries were recorded: it is
\* resolved by the routes again and the caches hold what it recorded alone
C24_ResetBeforeLookup ==
    /\ last.op = "request"
    /\ requests = 2
    /\ now = CACHE_CLEAR_TIME + 2
    /\ cacheExpirationTime = now + CACHE_CLEAR_TIME
    /\ last.outcome.kind = "redirect"
    /\ last.outcome.src = "dynamic"
    /\ cachedPaths = {last.url}

\* the literal before the first parameter of a stored route, encoded and lower-cased
prefixOf(route) == toLowerCase(route.literals[1])

\* prefix a comes before prefix b: the longer first, then in ascending order
prefixBefore(a, b) == Len(a) > Len(b) \/ (Len(a) = Len(b) /\ cmpStr(a, b) < 0)

isPrefixOf(prefix, path) ==
    Len(prefix) <= Len(path) /\ SubSeq(path, 1, Len(prefix)) = prefix

\* C25: the prefixes of the prefix groups are pairwise distinct, every dynamic route
\* is in the group of the lower-cased encoded literal before its first parameter, and
\* the groups are in order of prefix length descending, then prefix ascending, so
\* of two groups whose prefixes match a path the one with the longer prefix is first.
C25_PrefixGroups ==
    /\ \A g, h \in 1..Len(dynamicRoutes) :
          /\ g < h => prefixBefore(dynamicRoutes[g].prefix, dynamicRoutes[h].prefix)
          /\ g # h => dynamicRoutes[g].prefix # dynamicRoutes[h].prefix
          /\ (isPrefixOf(dynamicRoutes[h].prefix, dynamicRoutes[g].prefix) /\ g # h)
                => g < h
    /\ \A g \in 1..Len(dynamicRoutes) : \A i \in 1..Len(dynamicRoutes[g].routes) :
          prefixOf(dynamicRoutes[g].routes[i]) = dynamicRoutes[g].prefix

\* the groups '/a/' and '/' in this order after '/{x}' and then '/A/{n:int}' were
\* bound: the later, longer prefix is probed first
C25_LongerPrefixFirst ==
    /\ last.op = "bind"
    /\ last.call.name = "gu"
    /\ last.err = ""
    /\ Len(dynamicRoutes) = 2
    /\ dynamicRoutes[1].prefix = <<"/", "a", "/">>
    /\ dynamicRoutes[2].prefix = <<"/">>
    /\ Len(dynamicRoutes[1].routes) = 1
    /\ Len(dynamicRoutes[2].routes) = 1
    /\ dynamicRoutes[2].routes[1].name = "ox"

\* route a comes before route b in lexical order: at the first literal in which
\* they differ, the literal of a is the smaller string
lexicalBefore(a, b) ==
    \E i \in 1..Len(a.literals) :
        /\ i <= Len(b.literals)
        /\ cmpStr(a.literals[i], b.literals[i]) < 0
        /\ \A j \in 1..(i - 1) : a.literals[j] = b.literals[j]

\* the weight vector of a is greater at the first position where the two differ,
\* or the vectors agree up to the shorter and a has the longer
heavier(a, b) ==
    \/ \E i \in 1..Len(a.weights) :
          /\ i <= Len(b.weights)
          /\ a.weights[i] > b.weights[i]
          /\ \A j \in 1..(i - 1) : a.weights[j] = b.weights[j]
    \/ /\ Len(a.weights) > Len(b.weights)
       /\ \A j \in 1..Len(b.weights) : a.weights[j] = b.weights[j]

\* C26: the routes of each prefix group are in descending order of weight vector,
\* the first difference deciding, and routes of equal weight vectors in lexical
\* order, so that the order of a group is determined by the routes it holds.
C26_WithinGroupOrder ==
    \A g \in 1..Len(dynamicRoutes) : \A i, j \in 1..Len(dynamicRoutes[g].routes) :
        i < j => \/ heavier(dynamicRoutes[g].routes[i], dynamicRoutes[g].routes[j])
                 \/ /\ dynamicRoutes[g].routes[i].weights = dynamicRoutes[g].routes[j].weights
                    /\ lexicalBefore(dynamicRoutes[g].routes[i], dynamicRoutes[g].routes[j])

\* '/{x}/b' bound before '/{x}/a': equal weight vectors, kept in the order bound
C26_BoundOrderKept ==
    /\ last.op = "bind"
    /\ last.err = ""
    /\ Len(dynamicRoutes) = 1
    /\ Len(dynamicRoutes[1].routes) = 2
    /\ dynamicRoutes[1].routes[1].name = "ob"
    /\ dynamicRoutes[1].routes[2].name = "oa"
    /\ dynamicRoutes[1].routes[1].weights = dynamicRoutes[1].routes[2].weights

\* the same two routes bound in the other order are stored in the other order
C26_OtherOrderKept ==
    /\ last.op = "bind"
    /\ last.err = ""
    /\ Len(dynamicRoutes) = 1
    /\ Len(dynamicRoutes[1].routes) = 2
    /\ dynamicRoutes[1].routes[1].name = "oa"
    /\ dynamicRoutes[1].routes[2].name = "ob"

\* C26 without the tie-break: no route comes after a route of smaller weight vector
C26_DescendingWeights ==
    \A g \in 1..Len(dynamicRoutes) : \A i, j \in 1..Len(dynamicRoutes[g].routes) :
        i < j => ~heavier(dynamicRoutes[g].routes[j], dynamicRoutes[g].routes[i])

\* what the matcher of route captured of the path of the last request
capturedBy(route) == regexExec(route.pattern, trimUrl(last.url)).caps

\* the parameters of route for which fromUrl signals a casing failure
casingFailures(route) ==
    {k \in 1..Len(route.argumentNames) :
        fromUrl(route.converters[k], capturedBy(route)[k]).st = "casing"}

\* the converter of parameter k decodes the expected casing it signalled
recovers(route, k) ==
    fromUrl(route.converters[k],
            fromUrl(route.converters[k], capturedBy(route)[k]).expected).st = "ok"

\* C27: when fromUrl signals a casing failure for a segment its matcher accepted,
\* decoding the expected text with the same converter succeeds, and the request the
\* route answers ends in a 301 and not in the error channel.
C27_CasingRecovery ==
    (last.op = "request") =>
        \A i \in 1..Len(allRoutes) :
            matcherAccepts(allRoutes[i]) =>
                /\ \A k \in casingFailures(allRoutes[i]) : recovers(allRoutes[i], k)
                /\ (/\ casingFailures(allRoutes[i]) # {}
                    /\ last.outcome.src = "dynamic"
                    /\ last.outcome.name = allRoutes[i].name
                    /\ last.outcome.kind # "methodNotAllowed")
                      => last.outcome.kind = "redirect"

\* GET /A%25 on '/{x}': 'A%' is not lower case, the expected text 'a%' does not
\* decode, and the request ends in the error channel
C27_ExpectedTextNotDecodable ==
    /\ last.op = "request"
    /\ last.method = "GET"
    /\ last.url = <<"/", "A", "%", "2", "5">>
    /\ last.outcome.kind = "error"
    /\ last.outcome.name = "cs"
    /\ \E i \in 1..Len(allRoutes) :
          /\ allRoutes[i].name = "cs"
          /\ casingFailures(allRoutes[i]) = {1}
          /\ ~recovers(allRoutes[i], 1)

\* C27 for the segments whose expected text holds no '%'
C27_RecoveryWithoutPercent ==
    (last.op = "request") =>
        \A i \in 1..Len(allRoutes) :
            matcherAccepts(allRoutes[i]) =>
                \A k \in casingFailures(allRoutes[i]) :
                    indexOf(fromUrl(allRoutes[i].converters[k],
                                    capturedBy(allRoutes[i])[k]).expected, "%") = 0
                        => recovers(allRoutes[i], k)

\* the index of the static entry whose key is the slash-trimmed, lower-cased path of
\* the last request, 0 when there is none
staticKeyOf(path) == staticIndex(staticRoutes, toLowerCase(trimUrl(path)))

\* the last request is resolved by this static entry: redirected to its route when
\* the path differs from it, else its handler or method-not-allowed
resolvedByStatic(entry) ==
    /\ last.outcome.src \in {"static", "redirectCache"}
    /\ last.url # entry.route =>
          /\ last.outcome.kind = "redirect"
          /\ last.outcome.location = entry.route \o last.querystring
    /\ last.url = entry.route =>
          /\ last.outcome.src = "static"
          /\ last.outcome.name = entry.name
          /\ last.outcome.descriptor = entry.descriptor
          /\ last.outcome.kind =
                IF lowerMethod(last.method) \in entry.descriptor.methods
                THEN "handler" ELSE "methodNotAllowed"

\* C28: a request whose slash-trimmed, lower-cased path is a key of the static map is
\* resolved by that static entry (its handler, a redirect to its route, or
\* method-not-allowed), never by a dynamic route or an entry of the match cache.
C28_StaticPrecedence ==
    (last.op = "request" /\ staticKeyOf(last.url) # 0)
        => resolvedByStatic(staticRoutes[staticKeyOf(last.url)])

\* '/B/' and '/{x}' are bound and GET /b, which '/{x}' accepts, is redirected to
\* '/B/' by the static entry
C28_StaticBeforeDynamic ==
    /\ last.op = "request"
    /\ last.url = <<"/", "b">>
    /\ staticKeyOf(last.url) # 0
    /\ \E i \in 1..Len(allRoutes) : matcherAccepts(allRoutes[i])
    /\ last.outcome.src = "static"
    /\ last.outcome.kind = "redirect"
    /\ last.outcome.location = <<"/", "B", "/">>

\* a step in which a bind call threw
bindThrew == binds' = binds + 1 /\ last'.op = "bind" /\ last'.err # ""

\* C29: a bind call that throws, on its first alternative or on a later one, leaves
\* the static map, the prefix groups and the generator map as they were before it.
C29_FailedBindAtomic ==
    [][bindThrew => /\ staticRoutes' = staticRoutes
                    /\ dynamicRoutes' = dynamicRoutes
                    /\ urlGenerators' = urlGenerators]_vars

\* bind('nm', ['/e', 'e']) threw on its second alternative and '/e' is in the static
\* map, with no generator for its name
C29_FirstAlternativeKept ==
    /\ last.op = "bind"
    /\ last.err # ""
    /\ binds = 1
    /\ last.call.id = 21
    /\ Len(staticRoutes) = 1
    /\ staticRoutes[1].name = "nm"
    /\ urlGenerators = <<>>

\* a bind call that throws registers no generator
C29_GeneratorsKept ==
    [][bindThrew => urlGenerators' = urlGenerators]_vars

\* route is the route of a match-cache entry: it carries the descriptor of the entry
\* and declares the parameters the entry holds
routeOfEntry(route, entry) ==
    /\ route.descriptor = entry.descriptor
    /\ DOMAIN entry.params = {route.argumentNames[k] : k \in 1..Len(route.argumentNames)}

\* key is the canonical path of a route of the entry for the parameters of the entry
reassembled(key, entry) ==
    \E i \in 1..Len(allRoutes) :
        /\ routeOfEntry(allRoutes[i], entry)
        /\ key = canonicalPath(allRoutes[i],
                               argsOf(allRoutes[i].argumentNames, entry.params))

\* C30: the redirect cache maps each key to a different path, every key of the match
\* cache is the canonical path reassembled from the route and the parameters of its
\* entry, and no path is a key of both caches.
C30_CacheContent ==
    /\ \A key \in DOMAIN redirectCache : redirectCache[key] # key
    /\ \A key \in DOMAIN dynamicRouteCache : reassembled(key, dynamicRouteCache[key])
    /\ DOMAIN redirectCache \cap DOMAIN dynamicRouteCache = {}

\* /01 is a key of the match cache with the parameter n = 1 of '/{n:int}', whose
\* canonical path is /1
C30_KeyOffCanonical ==
    /\ last.op = "request"
    /\ last.url = <<"/", "0", "1">>
    /\ last.url \in DOMAIN dynamicRouteCache
    /\ dynamicRouteCache[last.url].params = ("n" :> Num(1))
    /\ \E i \in 1..Len(allRoutes) :
          /\ allRoutes[i].name = "di"
          /\ routeOfEntry(allRoutes[i], dynamicRouteCache[last.url])
          /\ canonicalPath(allRoutes[i], <<Num(1)>>) = <<"/", "1">>

\* C30 without the reassembly: redirects lead elsewhere and the caches share no key
C30_CachesDisjoint ==
    /\ \A key \in DOMAIN redirectCache : redirectCache[key] # key
    /\ DOMAIN redirectCache \cap DOMAIN dynamicRouteCache = {}

====
